---- MODULE Spec2Model ----
(***************************************************************************)
(* The recommendation core of the MovieLens recommender backend: the       *)
(* interaction write path, the Redis result cache and the recommenders     *)
(* of RecommendationService / AdvancedRecommendationService, as a state    *)
(* machine over the interaction store and the cache.                       *)
(*                                                                         *)
(* Representation.                                                         *)
(*  - A cache key is the sequence of its colon-separated segments, each a  *)
(*    string: "recommendations:user:u1:2:True" is                          *)
(*    <<"recommendations","user","u1","2","True">>.                        *)
(*  - A recommendation list is the sequence of its movie ids; a cached     *)
(*    value carries the shape of its elements (fmt) because the services   *)
(*    store different JSON shapes under their keys.                        *)
(*  - An embedding is an integer vector; cosine similarity is kept as an   *)
(*    integer in units of 1/SimScale, interaction weights in units of 1/5. *)
(*  - Time does not pass: no entry reaches its TTL inside a behaviour.     *)
(***************************************************************************)
EXTENDS Integers, Sequences, FiniteSets, TLC

VARIABLES
    interactions,   \* the interactions collection, in insertion (= timestamp) order
    cache,          \* the Redis keyspace: key -> entry
    redisClient,    \* database._redis_client is set (TRUE) or None (FALSE)
    cfLoaded,       \* AdvancedRecommendationService.cf_model and cf_mappings are loaded
    hybridLoaded,   \* AdvancedRecommendationService.hybrid_config is loaded
    task,           \* the coroutine the event loop runs
    writer,         \* the in-flight create_interaction coroutine
    peer,           \* a second coroutine, suspended at an await while `task` runs
    redisConnectionAttempted,   \* database._redis_connection_attempted
    last            \* the call that returned last, with what it returned

vars ==
    <<interactions, cache, redisClient, cfLoaded, hybridLoaded, task, writer, peer,
      redisConnectionAttempted, last>>

---------------------------------------------------------------------------
(* Bounds of the model *)

MaxInteractions == 2
MaxBlendLen == 3

(* Program constants *)

PROFILE_LIMIT == 10
CANDIDATE_POOL == 100
CF_POOL == 500
VIEW_WEIGHT == 3
SIMILAR_DB_LIMIT == 20
DB_SIMILARITY == 4
HYBRID_FACTOR == 3
HYBRID_CAP == 30
POPULAR_FACTOR == 2
LEGACY_POOL == 100
LIKED_LIMIT == 20
MinRatingDoubled == 7
RECOMMENDATIONS_CACHE_TTL == 86400
MOVIE_CACHE_TTL == 604800
NoValue == -1
SimScale == 25

---------------------------------------------------------------------------
(* Fixtures: users, the movies collection, what the ETL left in the store *)

Users == {"u1", "u2"}

(* the user whose recommendation requests are followed *)
Requesters == {"u1"}

Movies ==
    << [id |-> "m1", embedding |-> <<5, 0>>, wellformed |-> TRUE],
       [id |-> "m2", embedding |-> <<4, 3>>, wellformed |-> TRUE],
       [id |-> "m3", embedding |-> <<3, 4>>, wellformed |-> TRUE],
       [id |-> "m4", embedding |-> <<>>,     wellformed |-> FALSE],
       [id |-> "m5", embedding |-> <<4, -3>>, wellformed |-> TRUE] >>

MovieIds == {Movies[i].id : i \in 1..Len(Movies)}

Limits == {1, 2}

(* the offsets of GET /movies: into the collection, at its end, past it *)
Skips == 0..Len(Movies)

(* the movies whose similar movies are requested: one with an embedding, *)
(* one without                                                           *)
SimilarSources == {"m1", "m4"}

(* the limit of the hybrid requests followed *)
HybridLimit == CHOOSE l \in Limits : \A k \in Limits : l <= k

(* the documents create_interaction inserts: user_id, movie_id, type, value *)
ApiInteraction(u, m, k, v) ==
    [fmt |-> "api", user |-> u, movie |-> m, kind |-> k, value |-> v]

(* the documents the ETL inserted: userId, movieId, type "rate", value *)
EtlInteraction(u, m, v) ==
    [fmt |-> "etl", user |-> u, movie |-> m, kind |-> "rate", value |-> v]

(* the request bodies of POST /interactions: userId, movieId, type, value *)
Body(u, m, k, v) == [userId |-> u, movieId |-> m, type |-> k, value |-> v]

Bodies ==
    { Body("", "m1", "rate", 5), Body("", "m2", "view", NoValue),
      Body("", "m4", "rate", 5) }

(* the ratings among them: of a movie with an embedding, of one without *)
RatingBodies == {b \in Bodies : b.type = "rate"}

EtlSeed ==
    << EtlInteraction("1", "m2", 4), EtlInteraction("1", "m3", 5),
       EtlInteraction("2", "m3", 3) >>

---------------------------------------------------------------------------
(* Sequence helpers *)

Range(s) == {s[i] : i \in 1..Len(s)}

Take(s, n) == SubSeq(s, 1, IF n < Len(s) THEN n ELSE Len(s))

Min(a, b) == IF a < b THEN a ELSE b

RECURSIVE Reverse(_)
Reverse(s) == IF s = <<>> THEN <<>> ELSE Append(Reverse(Tail(s)), Head(s))

RECURSIVE SelectIdx(_, _)
SelectIdx(s, keep) ==
    IF s = <<>> THEN <<>>
    ELSE IF Len(s) \in keep
         THEN Append(SelectIdx(SubSeq(s, 1, Len(s) - 1), keep), s[Len(s)])
         ELSE SelectIdx(SubSeq(s, 1, Len(s) - 1), keep)

Filter(s, Keep(_)) == SelectIdx(s, {i \in 1..Len(s) : Keep(s[i])})

(* sorted(pairs, key=score, reverse=True): descending, equal scores keep  *)
(* their input order                                                      *)
RECURSIVE InsertDesc(_, _)
InsertDesc(sorted, p) ==
    IF sorted = <<>> THEN <<p>>
    ELSE IF Head(sorted).score >= p.score
         THEN <<Head(sorted)>> \o InsertDesc(Tail(sorted), p)
         ELSE <<p>> \o sorted

RECURSIVE SortDesc(_)
SortDesc(s) ==
    IF s = <<>> THEN <<>>
    ELSE InsertDesc(SortDesc(SubSeq(s, 1, Len(s) - 1)), s[Len(s)])

Ids(pairs) == [i \in 1..Len(pairs) |-> pairs[i].id]

(* the element of a one-element set *)
The(S) == CHOOSE x \in S : TRUE

---------------------------------------------------------------------------
(* Cache keys: the f-strings of the services *)

Digit == <<"0", "1", "2", "3", "4", "5", "6", "7", "8", "9">>

RECURSIVE IntStr(_)
IntStr(n) == IF n < 10 THEN Digit[n + 1] ELSE IntStr(n \div 10) \o Digit[(n % 10) + 1]

BoolStr(b) == IF b THEN "True" ELSE "False"

UserKey(u, l, e) == <<"recommendations", "user", u, IntStr(l), BoolStr(e)>>

SimilarKey(m, l) == <<"recommendations", "similar", m, IntStr(l)>>

PopularKey(l) == <<"movies", "popular", IntStr(l)>>

LegacyUserKey(u, l) == <<"rec", u>>

CfKey(u, l, e) == <<"recommendations", "cf", "user", u, IntStr(l), BoolStr(e)>>

CbKey(u, l, e) == <<"recommendations", "cb", "user", u, IntStr(l), BoolStr(e)>>

HybridKey(u, l, e) == <<"recommendations", "hybrid", "user", u, IntStr(l), BoolStr(e)>>

AdvPopularKey(l) == <<"recommendations", "popular", IntStr(l)>>

SimilarDbKey(m, l) == <<"similar", "db", m, IntStr(l)>>

MoviesListKey(skip, l) == <<"movies", "list", IntStr(skip), IntStr(l)>>

(* a pattern that names the users' keys of another recommender *)
InvalidationPatternOther(u) == <<"recommendations", "cf", "user", u, "*">>

InvalidationPattern(u) == <<"recommendations", "user", u, "*">>

(* Redis KEYS glob on segments: "*" stands for one or more segments (it   *)
(* matches any characters, colons included)                               *)
RECURSIVE GlobMatch(_, _)
GlobMatch(p, k) ==
    IF p = <<>> THEN k = <<>>
    ELSE IF k = <<>> THEN FALSE
    ELSE IF Head(p) = "*"
         THEN GlobMatch(Tail(p), Tail(k)) \/ GlobMatch(p, Tail(k))
         ELSE Head(p) = Head(k) /\ GlobMatch(Tail(p), Tail(k))

---------------------------------------------------------------------------
(* CacheRepository (redis_client.py). fault: "ok", "down" (every command  *)
(* raises) or "readonly" (SETEX and DEL raise)                            *)

CacheFaults == {"ok", "down", "readonly"}

NoEntry == [val |-> <<>>, fmt |-> "none", ttl |-> 0, by |-> <<>>, basis |-> 0]

Entry(val, fmt, ttl, by, basis) ==
    [val |-> val, fmt |-> fmt, ttl |-> ttl, by |-> by, basis |-> basis]

(* a lookup that answers from the keyspace whatever the connection does *)
CacheGetUnguarded(c, client, fault, key) ==
    IF key \notin DOMAIN c
    THEN [some |-> FALSE, entry |-> NoEntry]
    ELSE [some |-> TRUE, entry |-> c[key]]

(* get: None without a client, on every exception, on a missing key *)
CacheGet(c, client, fault, key) ==
    IF ~client \/ fault = "down" \/ key \notin DOMAIN c
    THEN [some |-> FALSE, entry |-> NoEntry]
    ELSE [some |-> TRUE, entry |-> c[key]]

CacheGetJson(c, client, fault, key) == CacheGet(c, client, fault, key)

CacheSet(c, client, fault, key, entry) ==
    IF ~client \/ fault # "ok"
    THEN [ok |-> FALSE, cache |-> c]
    ELSE [ok |-> TRUE,
          cache |-> [k \in DOMAIN c \cup {key} |-> IF k = key THEN entry ELSE c[k]]]

CacheSetJson(c, client, fault, key, entry) == CacheSet(c, client, fault, key, entry)

(* delete: DEL of one key; False without a client and on every exception *)
CacheDelete(c, client, fault, key) ==
    IF ~client \/ fault # "ok" \/ key \notin DOMAIN c
    THEN [ok |-> FALSE, cache |-> c]
    ELSE [ok |-> TRUE, cache |-> [k \in DOMAIN c \ {key} |-> c[k]]]

(* delete_pattern: KEYS then DEL; every exception ends in `return 0` *)
CacheDeletePattern(c, client, fault, pattern) ==
    LET keys == {k \in DOMAIN c : GlobMatch(pattern, k)}
    IN  IF ~client \/ fault # "ok" \/ keys = {}
        THEN [deleted |-> {}, cache |-> c, raised |-> FALSE]
        ELSE [deleted |-> keys,
              cache |-> [k \in DOMAIN c \ keys |-> c[k]],
              raised |-> FALSE]

---------------------------------------------------------------------------
(* MovieRepository and InteractionRepository (mongo_client.py). db: "ok"  *)
(* or "down" (every command raises inside the repository)                 *)

DbFaults == {"ok", "down"}

HasMovie(m) == \E i \in 1..Len(Movies) : Movies[i].id = m

MovieOf(m) == Movies[CHOOSE i \in 1..Len(Movies) : Movies[i].id = m]

(* get_movies: [] on error, else the first `limit` documents *)
GetMovies(limit, db) == IF db = "down" THEN <<>> ELSE Take(Movies, limit)

(* get_movies(skip, limit): find().skip(skip).limit(limit), [] on error *)
GetMoviesPage(skip, limit, db) ==
    IF db = "down" THEN <<>>
    ELSE SubSeq(Movies, skip + 1, Min(skip + limit, Len(Movies)))

(* get_embedding: None (here <<>>) on error, on no document, on no field *)
GetEmbedding(m, db) ==
    IF db = "down" \/ ~HasMovie(m) THEN <<>> ELSE MovieOf(m).embedding

(* get_by_id: re-raises on error, None when there is no document *)
GetById(m, db) ==
    IF db = "down" THEN [raised |-> TRUE, found |-> FALSE]
    ELSE [raised |-> FALSE, found |-> HasMovie(m)]

(* insert_one: the new store, or no id on error *)
RepoCreateInteraction(store, doc, db) ==
    IF db = "down" THEN [id |-> 0, store |-> store]
    ELSE [id |-> Len(store) + 1, store |-> Append(store, doc)]

IsApiOf(x, u) == x.fmt = "api" /\ x.user = u

(* find({"user_id": u}).sort("timestamp", -1).limit(limit) *)
GetUserInteractions(store, u, limit, db) ==
    IF db = "down" THEN <<>>
    ELSE LET IsMine(x) == IsApiOf(x, u)
         IN  Take(Reverse(Filter(store, IsMine)), limit)

(* find({"user_id": u}, {"movie_id": 1}): the ids, [] on error *)
GetUserMovieIds(store, u, db) ==
    IF db = "down" THEN {}
    ELSE {store[i].movie : i \in {j \in 1..Len(store) : IsApiOf(store[j], u)}}

---------------------------------------------------------------------------
(* Similarity: 1 - scipy cosine distance, in units of 1/SimScale *)

Dot(a, b) == IF Len(a) = 2 /\ Len(b) = 2 THEN a[1] * b[1] + a[2] * b[2] ELSE 0

ISqrt(n) == CHOOSE k \in 0..n : k * k <= n /\ (k + 1) * (k + 1) > n

Similarity(a, b) == (Dot(a, b) * SimScale) \div (ISqrt(Dot(a, a)) * ISqrt(Dot(b, b)))

(* interaction weight in units of 1/5: value / 5.0, or 0.6 without a value *)
InteractionWeight(x) == IF x.value = NoValue THEN VIEW_WEIGHT ELSE x.value

---------------------------------------------------------------------------
(* RecommendationService (recommendation_service.py) *)

(* the MovieResponse a stored document converts to: the conversion raises *)
(* on a document without its required fields                              *)
Converts(m) == HasMovie(m) /\ MovieOf(m).wellformed

(* lines 111-141: one profile movie against the candidate pool *)
RECURSIVE ScoreCandidates(_, _, _, _, _, _, _)
ScoreCandidates(cands, scores, movie, src, w, seen, db) ==
    IF cands = <<>> THEN scores
    ELSE LET c == Head(cands).id
             emb == GetEmbedding(c, db)
             skip == \/ c \in seen
                     \/ c \in Range(Ids(scores))
                     \/ c = movie
                     \/ emb = <<>>
             next == IF skip THEN scores
                     ELSE Append(scores, [id |-> c, score |-> Similarity(src, emb) * w])
         IN  ScoreCandidates(Tail(cands), next, movie, src, w, seen, db)

(* lines 82-141: the profile, most recent interaction first *)
RECURSIVE ScoreProfile(_, _, _, _)
ScoreProfile(profile, scores, seen, db) ==
    IF profile = <<>> THEN scores
    ELSE LET x == Head(profile)
             src == GetEmbedding(x.movie, db)
             next == IF src = <<>> THEN scores
                     ELSE ScoreCandidates(GetMovies(CANDIDATE_POOL, db), scores,
                                          x.movie, src, InteractionWeight(x), seen, db)
         IN  ScoreProfile(Tail(profile), next, seen, db)

(* lines 156-170: the details of the top movies; a failing one is skipped *)
Details(ids, db) ==
    LET Ok(m) == ~GetById(m, db).raised /\ GetById(m, db).found /\ Converts(m)
    IN  Filter(ids, Ok)

(* lines 143-172 *)
RankedRecommendations(profile, seen, limit, db) ==
    Details(Take(Ids(SortDesc(ScoreProfile(profile, <<>>, seen, db))), limit), db)

(* _get_default_recommendations, lines 282-310 *)
DefaultRecommendations(limit, db) ==
    LET docs == GetMovies(limit, db)
        Ok(d) == d.wellformed
    IN  Ids(Filter(docs, Ok))

(* what a call hands back: the list, or an exception leaving the call   *)
(* (raised); `caught` when an except clause of the call produced the    *)
(* answer; `trace` what the call computed on its way, where a property  *)
(* speaks of it                                                         *)
Response(result, raised, hit, reads, cacheAfter, key, by, basis) ==
    [result |-> result, raised |-> raised, hit |-> hit, reads |-> reads,
     cache |-> cacheAfter, key |-> key, by |-> by, basis |-> basis,
     caught |-> FALSE, trace |-> <<>>]

Traced(response, trace) == [response EXCEPT !.trace = trace]

(* raise inside the try block *)
Raise(c, key, by, hit) == Response(<<>>, TRUE, hit, ~hit, c, key, by, 0)

(* try: attempt / except Exception: handler *)
Except(attempt, handler) ==
    IF attempt.raised THEN [handler EXCEPT !.caught = TRUE] ELSE attempt

(* a cached list is rebuilt as response objects of the caller's model:    *)
(* that raises on elements of another shape                               *)
ParsesAs(entry, fmt) == entry.fmt = fmt

ParsesAsMovieResponses(entry) == ParsesAs(entry, "resp")

(* the hit branch shared by the recommenders: the cached list rebuilt *)
ServeCached(c, key, entry, fmt) ==
    IF ParsesAs(entry, fmt)
    THEN Response(entry.val, FALSE, TRUE, FALSE, c, key, entry.by, entry.basis)
    ELSE Raise(c, key, entry.by, TRUE)

(* lines 45-51: the lookup of get_recommendations_for_user *)
UserCacheLookup(c, client, f, u, l, e) ==
    LET got == CacheGetJson(c, client, f.cache, UserKey(u, l, e))
    IN  [hit |-> got.some /\ got.entry.val # <<>>, entry |-> got.entry]

(* lines 174-182: the write-back and the return *)
UserStoreResult(c, client, f, u, l, e, recs, basis) ==
    LET key == UserKey(u, l, e)
        by == <<"user", u, l, e>>
        after == IF recs # <<>>
                 THEN CacheSetJson(c, client, f.cache, key,
                          Entry(recs, "resp", RECOMMENDATIONS_CACHE_TTL, by, basis)).cache
                 ELSE c
    IN  Response(recs, FALSE, FALSE, TRUE, after, key, by, basis)

(* get_recommendations_for_user, the try block of lines 44-182 *)
TryGetRecommendationsForUser(store, c, client, f, u, l, e) ==
    LET key == UserKey(u, l, e)
        by == <<"user", u, l, e>>
        look == UserCacheLookup(c, client, f, u, l, e)
        profile == GetUserInteractions(store, u, PROFILE_LIMIT, f.db)
        seen == IF e THEN GetUserMovieIds(store, u, f.db) ELSE {}
    IN  IF look.hit
        THEN ServeCached(c, key, look.entry, "resp")
        ELSE IF profile = <<>>
             THEN Response(DefaultRecommendations(l, f.db), FALSE, FALSE, TRUE, c, key,
                           by, Len(profile))
             ELSE Traced(UserStoreResult(c, client, f, u, l, e,
                                         RankedRecommendations(profile, seen, l, f.db),
                                         Len(profile)),
                         ScoreProfile(profile, <<>>, seen, f.db))

(* get_recommendations_for_user, lines 41-186, as one uninterrupted call *)
GetRecommendationsForUser(store, c, client, f, u, l, e) ==
    Except(TryGetRecommendationsForUser(store, c, client, f, u, l, e),
           Response(<<>>, FALSE, FALSE, TRUE, c, UserKey(u, l, e),
                    <<"user", u, l, e>>, 0))

(* the candidates scored without the test for the source movie itself *)
RECURSIVE SimilaritiesKeepingSource(_, _, _, _, _)
SimilaritiesKeepingSource(cands, sims, m, src, db) ==
    IF cands = <<>> THEN sims
    ELSE LET c == Head(cands).id
             emb == GetEmbedding(c, db)
         IN  SimilaritiesKeepingSource(Tail(cands),
                 IF emb = <<>> THEN sims
                 ELSE Append(sims, [id |-> c, score |-> Similarity(src, emb)]),
                 m, src, db)

(* lines 216-236: the candidates scored against the source movie *)
RECURSIVE Similarities(_, _, _, _, _)
Similarities(cands, sims, m, src, db) ==
    IF cands = <<>> THEN sims
    ELSE LET c == Head(cands).id
             emb == GetEmbedding(c, db)
         IN  Similarities(Tail(cands),
                 IF c = m \/ emb = <<>> THEN sims
                 ELSE Append(sims, [id |-> c, score |-> Similarity(src, emb)]),
                 m, src, db)

(* get_similar_movies, the try block of lines 200-276 *)
TryGetSimilarMovies(c, client, f, m, l) ==
    LET key == SimilarKey(m, l)
        by == <<"similar", m, l, FALSE>>
        got == CacheGetJson(c, client, f.cache, key)
        src == GetEmbedding(m, f.db)
        sims == Similarities(GetMovies(CANDIDATE_POOL, f.db), <<>>, m, src, f.db)
        recs == Details(Take(Ids(SortDesc(sims)), l), f.db)
        after == IF recs # <<>>
                 THEN CacheSetJson(c, client, f.cache, key,
                          Entry(recs, "rec", RECOMMENDATIONS_CACHE_TTL, by, 0)).cache
                 ELSE c
    IN  IF got.some /\ got.entry.val # <<>>
        THEN ServeCached(c, key, got.entry, "rec")
        ELSE IF src = <<>>
             THEN Raise(c, key, by, FALSE)
             ELSE Response(recs, FALSE, FALSE, TRUE, after, key, by, 0)

(* the call without its except clause: the exception leaves the call *)
GetSimilarMoviesUnhandled(c, client, f, m, l) == TryGetSimilarMovies(c, client, f, m, l)

(* get_similar_movies, lines 188-280 *)
GetSimilarMovies(c, client, f, m, l) ==
    Except(TryGetSimilarMovies(c, client, f, m, l),
           Response(<<>>, FALSE, FALSE, TRUE, c, SimilarKey(m, l),
                    <<"similar", m, l, FALSE>>, 0))

(* lines 339-346: {"$group": {"_id": "$movieId", "count": {"$sum": 1}}},  *)
(* sorted by count, the first 2 * limit groups.  A document without a     *)
(* movieId field falls into the group of _id None.                        *)
GroupId(x) == IF x.fmt = "etl" THEN x.movie ELSE "None"

RECURSIVE Groups(_, _)
Groups(store, groups) ==
    IF store = <<>> THEN groups
    ELSE LET g == GroupId(Head(store))
             At(k) == IF groups[k].id = g
                      THEN [id |-> g, score |-> groups[k].score + 1]
                      ELSE groups[k]
         IN  Groups(Tail(store),
                    IF g \in Range(Ids(groups))
                    THEN [k \in 1..Len(groups) |-> At(k)]
                    ELSE Append(groups, [id |-> g, score |-> 1]))

Aggregate(store, limit) == Take(SortDesc(Groups(store, <<>>)), POPULAR_FACTOR * limit)

(* lines 349-363: ObjectId(None) is a fresh id that no movie has; then    *)
(* find({"_id": {"$in": ids}}).limit(limit), in the collection's order    *)
FindMoviesIn(ids, limit) ==
    LET Wanted(d) == d.id \in ids
    IN  Take(Filter(Movies, Wanted), limit)

(* get_popular_movies, the try block of lines 322-405 *)
TryGetPopularMovies(store, c, client, f, l) ==
    LET key == PopularKey(l)
        by == <<"popular", "", l, FALSE>>
        got == CacheGetJson(c, client, f.cache, key)
        ids == Range(Ids(Aggregate(store, l))) \ {"None"}
        docs == FindMoviesIn(ids, l)
        Ok(d) == d.wellformed
        movies == Ids(Filter(docs, Ok))
        after == IF movies # <<>>
                 THEN CacheSetJson(c, client, f.cache, key,
                          Entry(movies, "resp", RECOMMENDATIONS_CACHE_TTL, by, 0)).cache
                 ELSE c
    IN  IF got.some /\ got.entry.val # <<>> /\ ParsesAsMovieResponses(got.entry)
        THEN ServeCached(c, key, got.entry, "resp")
        ELSE IF f.db = "ok" /\ docs # <<>>
             THEN Response(movies, FALSE, FALSE, TRUE, after, key, by, 0)
             ELSE Response(DefaultRecommendations(l, f.db), FALSE, FALSE, TRUE, c,
                           key, by, 0)

(* get_popular_movies, lines 312-411 *)
GetPopularMovies(store, c, client, f, l) ==
    Except(TryGetPopularMovies(store, c, client, f, l),
           Response(<<>>, FALSE, FALSE, TRUE, c, PopularKey(l),
                    <<"popular", "", l, FALSE>>, 0))

---------------------------------------------------------------------------
(* The module-level functions of recommendation_service.py and the        *)
(* helpers they call.  They use the Redis client directly and return the  *)
(* stored documents, not response models.                                 *)

(* get_user_rated_movies, interaction_service.py: ratings of at least 3.5 *)
(* (MinRatingDoubled / 2), most recent first; a database error leaves it  *)
GetUserRatedMovies(store, u, db) ==
    LET Liked(x) == IsApiOf(x, u) /\ x.kind = "rate" /\ 2 * x.value >= MinRatingDoubled
        liked == Take(Reverse(Filter(store, Liked)), LIKED_LIMIT)
    IN  [raised |-> db = "down",
         ids |-> [i \in 1..Len(liked) |-> liked[i].movie]]

(* get_user_viewed_movies, interaction_service.py *)
GetUserViewedMovies(store, u, db) ==
    [raised |-> db = "down",
     ids |-> {store[i].movie : i \in {j \in 1..Len(store) : IsApiOf(store[j], u)}}]

(* get_movie_embedding, movie_service.py: None (here <<>>) on any error *)
GetMovieEmbedding(m, db) ==
    IF db = "down" \/ ~HasMovie(m) THEN <<>> ELSE MovieOf(m).embedding

(* get_popular_movies, lines 525-597 *)
ModuleGetPopularMovies(store, c, client, f, l) ==
    LET key == PopularKey(l)
        by == <<"popular", "", l, FALSE>>
        got == CacheGet(c, client, f.cache, key)
        ids == Range(Ids(Aggregate(store, l)))
        movies == Ids(FindMoviesIn(ids, l))
        after == IF movies # <<>>
                 THEN CacheSet(c, client, f.cache, key,
                          Entry(movies, "doc", RECOMMENDATIONS_CACHE_TTL, by, 0)).cache
                 ELSE c
    IN  IF got.some
        THEN Response(got.entry.val, FALSE, TRUE, FALSE, c, key, got.entry.by,
                      got.entry.basis)
        ELSE IF f.db = "down"
             THEN Response(<<>>, FALSE, FALSE, TRUE, c, key, by, 0)
             ELSE IF ids = {}
                  THEN Response(Take(Ids(Reverse(Movies)), l), FALSE, FALSE, TRUE, c,
                                key, by, 0)
                  ELSE Response(movies, FALSE, FALSE, TRUE, after, key, by, 0)

(* lines 482-506: a candidate's score is its best similarity to a liked   *)
(* movie                                                                  *)
MaxSimilarity(liked, emb) ==
    LET sims == {Similarity(liked[i], emb) : i \in 1..Len(liked)}
    IN  CHOOSE x \in sims : \A y \in sims : y <= x

RECURSIVE ScorePopular(_, _, _, _, _)
ScorePopular(cands, recs, liked, viewed, db) ==
    IF cands = <<>> THEN recs
    ELSE LET m == Head(cands)
             emb == GetMovieEmbedding(m, db)
         IN  ScorePopular(Tail(cands),
                 IF m \in viewed \/ emb = <<>> THEN recs
                 ELSE Append(recs, [id |-> m, score |-> MaxSimilarity(liked, emb)]),
                 liked, viewed, db)

(* get_user_recommendations, lines 430-522 *)
GetUserRecommendations(store, c, client, f, u, l) ==
    LET key == LegacyUserKey(u, l)
        by == <<"rec", u, l, FALSE>>
        got == CacheGet(c, client, f.cache, key)
        rated == GetUserRatedMovies(store, u, f.db)
        viewed == GetUserViewedMovies(store, u, f.db)
        HasEmbedding(m) == GetMovieEmbedding(m, f.db) # <<>>
        likedIds == Filter(rated.ids, HasEmbedding)
        liked == [i \in 1..Len(likedIds) |-> GetMovieEmbedding(likedIds[i], f.db)]
        popular == ModuleGetPopularMovies(store, c, client, f, l)
        pool == ModuleGetPopularMovies(store, c, client, f, LEGACY_POOL)
        top == Take(Ids(SortDesc(ScorePopular(pool.result, <<>>, liked, viewed.ids,
                                              f.db))), l)
        after == CacheSet(pool.cache, client, f.cache, key,
                     Entry(top, "scored", RECOMMENDATIONS_CACHE_TTL, by,
                           Len(rated.ids))).cache
    IN  IF got.some
        THEN Response(got.entry.val, FALSE, TRUE, FALSE, c, key, got.entry.by,
                      got.entry.basis)
        ELSE IF rated.raised \/ (rated.ids # <<>> /\ viewed.raised)
             THEN Raise(c, key, by, FALSE)
             ELSE IF rated.ids = <<>> \/ liked = <<>>
                  THEN popular
                  ELSE Response(top, FALSE, FALSE, TRUE, after, key, by, Len(rated.ids))

---------------------------------------------------------------------------
(* AdvancedRecommendationService (advanced_recommendation_service.py).    *)
(* Fixtures: the artifacts load_models reads and the item_similarity      *)
(* collection, both produced outside the repository.                      *)

CfUserMap == {"u1"}

CfMovieMap == {"m1", "m2", "m3", "m4"}

(* cf_model.predict(uid, iid).est in tenths; the model fails on m3 *)
CfPredict(u, m) ==
    IF m = "m3" THEN [raised |-> TRUE, est |-> 0]
    ELSE [raised |-> FALSE,
          est |-> IF m = "m1" THEN 30 ELSE IF m = "m2" THEN 45 ELSE 20]

(* hybrid_config: cf_weight 0.7 and cb_weight 0.3, in tenths *)
CfWeight == 7

CbWeight == 3

ItemSimilarity ==
    << [movie_id |-> "m1",
        similar_movies |-> << [movie_id |-> "m2", score |-> 20],
                              [movie_id |-> "m3", score |-> 15] >>] >>

HasSimilarity(m) == \E i \in 1..Len(ItemSimilarity) : ItemSimilarity[i].movie_id = m

SimilarityOf(m) ==
    ItemSimilarity[CHOOSE i \in 1..Len(ItemSimilarity) : ItemSimilarity[i].movie_id = m]

(* MovieRepository has no get_popular_movies: the call raises AttributeError *)
RepoGetPopularMovies(limit, db) == [raised |-> TRUE, docs |-> <<>>]

(* settings has no POPULAR_ITEMS_CACHE_TTL: reading it raises AttributeError *)
PopularItemsTtl == [raised |-> TRUE, ttl |-> 0]

(* get_popular_movies, the try block of lines 490-529 *)
TryAdvGetPopularMovies(c, client, f, l) ==
    LET key == AdvPopularKey(l)
        by == <<"adv_popular", "", l, FALSE>>
        got == CacheGetJson(c, client, f.cache, key)
        pop == RepoGetPopularMovies(l, f.db)
        Ok(d) == d.wellformed
        recs == Ids(Filter(pop.docs, Ok))
    IN  IF got.some /\ got.entry.val # <<>>
        THEN ServeCached(c, key, got.entry, "resp")
        ELSE IF pop.raised \/ (recs # <<>> /\ PopularItemsTtl.raised)
             THEN Raise(c, key, by, FALSE)
             ELSE Response(recs, FALSE, FALSE, TRUE,
                      IF recs # <<>>
                      THEN CacheSetJson(c, client, f.cache, key,
                               Entry(recs, "resp", PopularItemsTtl.ttl, by, 0)).cache
                      ELSE c,
                      key, by, 0)

(* get_popular_movies, lines 480-533 *)
AdvGetPopularMovies(c, client, f, l) ==
    Except(TryAdvGetPopularMovies(c, client, f, l),
           Response(<<>>, FALSE, FALSE, TRUE, c, AdvPopularKey(l),
                    <<"adv_popular", "", l, FALSE>>, 0))

(* get_similar_movies_from_db, the try block of lines 91-144: line 118    *)
(* takes the item's similarity, a float, as the movie id, and get_by_id   *)
(* raises on what is no ObjectId                                          *)
TryGetSimilarMoviesFromDb(c, client, f, m, l) ==
    LET key == SimilarDbKey(m, l)
        by == <<"similar_db", m, l, FALSE>>
        got == CacheGetJson(c, client, f.cache, key)
        items == IF ~HasSimilarity(m) THEN <<>>
                 ELSE Take(SortDesc(SimilarityOf(m).similar_movies), l)
    IN  IF got.some /\ got.entry.val # <<>>
        THEN ServeCached(c, key, got.entry, "resp")
        ELSE IF f.db = "down" \/ items # <<>>
             THEN Raise(c, key, by, FALSE)
             ELSE Response(<<>>, FALSE, FALSE, TRUE, c, key, by, 0)

(* get_similar_movies_from_db, lines 80-148 *)
GetSimilarMoviesFromDb(c, client, f, m, l) ==
    Except(TryGetSimilarMoviesFromDb(c, client, f, m, l),
           Response(<<>>, FALSE, FALSE, TRUE, c, SimilarDbKey(m, l),
                    <<"similar_db", m, l, FALSE>>, 0))

(* lines 324-345: the similar movies of one profile movie; a movie seen   *)
(* or already scored is skipped                                           *)
RECURSIVE ScoreSimilar(_, _, _, _)
ScoreSimilar(similar, scores, w, seen) ==
    IF similar = <<>> THEN scores
    ELSE LET m == Head(similar)
             next == IF m \in seen \/ m \in Range(Ids(scores)) THEN scores
                     ELSE Append(scores, [id |-> m, score |-> DB_SIMILARITY * w])
         IN  ScoreSimilar(Tail(similar), next, w, seen)

(* lines 308-345: the profile, most recent interaction first *)
RECURSIVE ScoreProfileFromDb(_, _, _, _, _, _)
ScoreProfileFromDb(profile, scores, seen, c, client, f) ==
    IF profile = <<>> THEN scores
    ELSE LET x == Head(profile)
             similar == GetSimilarMoviesFromDb(c, client, f, x.movie, SIMILAR_DB_LIMIT).result
         IN  ScoreProfileFromDb(Tail(profile),
                 ScoreSimilar(similar, scores, InteractionWeight(x), seen),
                 seen, c, client, f)

(* get_content_based_recommendations, the try block of lines 280-365 *)
TryGetContentBased(store, c, client, f, u, l, e) ==
    LET key == CbKey(u, l, e)
        by == <<"cb", u, l, e>>
        got == CacheGetJson(c, client, f.cache, key)
        profile == GetUserInteractions(store, u, PROFILE_LIMIT, f.db)
        seen == IF e THEN GetUserMovieIds(store, u, f.db) ELSE {}
        popular == AdvGetPopularMovies(c, client, f, l)
        recs == Take(Ids(SortDesc(ScoreProfileFromDb(profile, <<>>, seen, c, client, f))), l)
        after == IF recs # <<>>
                 THEN CacheSetJson(c, client, f.cache, key,
                          Entry(recs, "resp", RECOMMENDATIONS_CACHE_TTL, by,
                                Len(profile))).cache
                 ELSE c
    IN  IF got.some /\ got.entry.val # <<>>
        THEN ServeCached(c, key, got.entry, "resp")
        ELSE IF profile = <<>>
             THEN popular
             ELSE Response(recs, FALSE, FALSE, TRUE, after, key, by, Len(profile))

(* get_content_based_recommendations, lines 262-370 *)
GetContentBased(store, c, client, f, u, l, e) ==
    Except(TryGetContentBased(store, c, client, f, u, l, e),
           AdvGetPopularMovies(c, client, f, l))

(* the predictions with the try of lines 212-221 left out: a prediction  *)
(* error leaves the loop for the handler of the call, which falls back   *)
(* to the content-based recommender                                      *)
RECURSIVE PredictionsUnguarded(_, _, _, _)
PredictionsUnguarded(cands, preds, u, seen) ==
    IF cands = <<>> THEN [cold |-> FALSE, preds |-> preds]
    ELSE LET m == Head(cands).id
             p == CfPredict(u, m)
         IN  IF m \in seen \/ m \notin CfMovieMap
             THEN PredictionsUnguarded(Tail(cands), preds, u, seen)
             ELSE IF u \notin CfUserMap \/ p.raised
                  THEN [cold |-> TRUE, preds |-> preds]
                  ELSE PredictionsUnguarded(Tail(cands),
                           Append(preds, [id |-> m, score |-> p.est]), u, seen)

(* lines 193-221: the predictions over the candidate pool; `cold` when    *)
(* the user is missing from user_id_map at a mapped, unseen candidate     *)
RECURSIVE Predictions(_, _, _, _)
Predictions(cands, preds, u, seen) ==
    IF cands = <<>> THEN [cold |-> FALSE, preds |-> preds]
    ELSE LET m == Head(cands).id
             p == CfPredict(u, m)
         IN  IF m \in seen \/ m \notin CfMovieMap
             THEN Predictions(Tail(cands), preds, u, seen)
             ELSE IF u \notin CfUserMap
                  THEN [cold |-> TRUE, preds |-> preds]
                  ELSE Predictions(Tail(cands),
                           IF p.raised THEN preds
                           ELSE Append(preds, [id |-> m, score |-> p.est]),
                           u, seen)

(* lines 230-245: the details of the top movies; here a failing lookup or *)
(* conversion is not caught per movie                                     *)
CfDetails(ids, db) ==
    LET Found(m) == GetById(m, db).found
        Breaks(m) == GetById(m, db).raised \/ (GetById(m, db).found /\ ~Converts(m))
    IN  [raised |-> \E i \in 1..Len(ids) : Breaks(ids[i]),
         recs |-> Filter(ids, Found)]

(* the try block without its test for the model and the mappings *)
TryGetCollaborativeFilteringUnloaded(store, c, client, f, loaded, u, l, e) ==
    LET key == CfKey(u, l, e)
        by == <<"cf", u, l, e>>
        got == CacheGetJson(c, client, f.cache, key)
        seen == IF e THEN GetUserMovieIds(store, u, f.db) ELSE {}
        pred == Predictions(GetMovies(CF_POOL, f.db), <<>>, u, seen)
        det == CfDetails(Take(Ids(SortDesc(pred.preds)), l), f.db)
        after == IF det.recs # <<>>
                 THEN CacheSetJson(c, client, f.cache, key,
                          Entry(det.recs, "resp", RECOMMENDATIONS_CACHE_TTL, by,
                                0)).cache
                 ELSE c
    IN  IF got.some /\ got.entry.val # <<>>
        THEN ServeCached(c, key, got.entry, "resp")
        ELSE IF pred.cold THEN GetContentBased(store, c, client, f, u, l, e)
             ELSE IF det.raised THEN Raise(c, key, by, FALSE)
                  ELSE Response(det.recs, FALSE, FALSE, TRUE, after, key, by, 0)

(* get_collaborative_filtering_recommendations, the try block of lines    *)
(* 167-255                                                                *)
TryGetCollaborativeFiltering(store, c, client, f, loaded, u, l, e) ==
    LET key == CfKey(u, l, e)
        by == <<"cf", u, l, e>>
        got == CacheGetJson(c, client, f.cache, key)
        fallback == GetContentBased(store, c, client, f, u, l, e)
        seen == IF e THEN GetUserMovieIds(store, u, f.db) ELSE {}
        pred == Predictions(GetMovies(CF_POOL, f.db), <<>>, u, seen)
        det == CfDetails(Take(Ids(SortDesc(pred.preds)), l), f.db)
        after == IF det.recs # <<>>
                 THEN CacheSetJson(c, client, f.cache, key,
                          Entry(det.recs, "resp", RECOMMENDATIONS_CACHE_TTL, by,
                                0)).cache
                 ELSE c
    IN  IF ~loaded THEN fallback
        ELSE IF got.some /\ got.entry.val # <<>>
             THEN ServeCached(c, key, got.entry, "resp")
             ELSE IF pred.cold THEN fallback
                  ELSE IF det.raised THEN Raise(c, key, by, FALSE)
                       ELSE Response(det.recs, FALSE, FALSE, TRUE, after, key, by, 0)

(* get_collaborative_filtering_recommendations, lines 150-260 *)
GetCollaborativeFiltering(store, c, client, f, loaded, u, l, e) ==
    Except(TryGetCollaborativeFiltering(store, c, client, f, loaded, u, l, e),
           GetContentBased(store, c, client, f, u, l, e))

(* lines 430 and 440: position_score = 1.0 - (i / len(list)) for the      *)
(* element at enumerate index i = pos - 1, in units of 1/len(list)        *)
PositionScore(pos, n) == n - (pos - 1)

(* an existing entry that is assigned (line 432) rather than updated *)
ScoredOverwriting(entry, s, source, adds) ==
    [id |-> entry.id, score |-> s, sources |-> <<source>>]

(* an existing entry of movie_scores after another list scored its movie: *)
(* assigned anew by the cf loop (line 432), updated by the cb loop (lines *)
(* 445-446)                                                               *)
Scored(entry, s, source, adds) ==
    IF adds
    THEN [id |-> entry.id, score |-> entry.score + s,
          sources |-> Append(entry.sources, source)]
    ELSE [id |-> entry.id, score |-> s, sources |-> <<source>>]

(* lines 427-453: one list scored into movie_scores; the weighted scores  *)
(* are kept over the common denominator len(cf) * len(cb) * 10; the dict  *)
(* keeps its insertion order                                              *)
RECURSIVE HybridScores(_, _, _, _, _, _, _)
HybridScores(recs, scores, i, n, unit, source, adds) ==
    IF i > Len(recs) THEN scores
    ELSE LET m == recs[i]
             s == PositionScore(i, n) * unit
             At(k) == IF scores[k].id = m
                      THEN Scored(scores[k], s, source, adds)
                      ELSE scores[k]
         IN  HybridScores(recs,
                 IF m \in Range(Ids(scores))
                 THEN [k \in 1..Len(scores) |-> At(k)]
                 ELSE Append(scores, [id |-> m, score |-> s, sources |-> <<source>>]),
                 i + 1, n, unit, source, adds)

(* lines 424-453: movie_scores after both loops *)
Combine(cf, cb) ==
    LET ncf == IF cf = <<>> THEN 1 ELSE Len(cf)
        ncb == IF cb = <<>> THEN 1 ELSE Len(cb)
    IN  HybridScores(cb,
            HybridScores(cf, <<>>, 1, Len(cf), CfWeight * ncb, "collaborative", FALSE),
            1, Len(cb), CbWeight * ncf, "content", TRUE)

(* lines 455-463: the top `limit` of the combined ranking *)
BlendTop(cf, cb, l) == Take(Ids(SortDesc(Combine(cf, cb))), l)

(* the position scores of the two loops and movie_scores after them *)
BlendTrace(cf, cb) ==
    [cf |-> cf, cb |-> cb,
     cfPos |-> [i \in 1..Len(cf) |-> PositionScore(i, Len(cf))],
     cbPos |-> [i \in 1..Len(cb) |-> PositionScore(i, Len(cb))],
     scores |-> Combine(cf, cb)]

(* lines 455-473: the top of the combined ranking, the write-back and the *)
(* return; cf and cb are what the two recommenders answered               *)
HybridResult(client, f, u, l, e, cf, cb) ==
    LET key == HybridKey(u, l, e)
        by == <<"hybrid", u, l, e>>
        recs == BlendTop(cf.result, cb.result, l)
        after == IF recs # <<>>
                 THEN CacheSetJson(cb.cache, client, f.cache, key,
                          Entry(recs, "resp", RECOMMENDATIONS_CACHE_TTL, by, 0)).cache
                 ELSE cb.cache
    IN  Response(recs, FALSE, FALSE, TRUE, after, key, by, 0)

(* the try block without its test for the configuration: the default     *)
(* weights are used                                                       *)
TryGetHybridUnconfigured(store, c, client, f, loaded, hybrid, u, l, e) ==
    LET key == HybridKey(u, l, e)
        got == CacheGetJson(c, client, f.cache, key)
        larger == Min(l * HYBRID_FACTOR, HYBRID_CAP)
        Blend(cf) ==
            The({ HybridResult(client, f, u, l, e, cf, cb) :
                  cb \in {GetContentBased(store, cf.cache, client, f, u, larger, e)} })
    IN  IF got.some /\ got.entry.val # <<>>
        THEN ServeCached(c, key, got.entry, "resp")
        ELSE The({ Blend(cf) :
                   cf \in {GetCollaborativeFiltering(store, c, client, f, loaded,
                                                     u, larger, e)} })

(* get_hybrid_recommendations, the try block of lines 389-473: the cf     *)
(* call, then the cb call on the cache the cf call left, then the blend   *)
TryGetHybrid(store, c, client, f, loaded, hybrid, u, l, e) ==
    LET key == HybridKey(u, l, e)
        got == CacheGetJson(c, client, f.cache, key)
        larger == Min(l * HYBRID_FACTOR, HYBRID_CAP)
        Blend(cf) ==
            The({ HybridResult(client, f, u, l, e, cf, cb) :
                  cb \in {GetContentBased(store, cf.cache, client, f, u, larger, e)} })
    IN  IF ~hybrid THEN GetContentBased(store, c, client, f, u, l, e)
        ELSE IF got.some /\ got.entry.val # <<>>
             THEN ServeCached(c, key, got.entry, "resp")
             ELSE The({ Blend(cf) :
                        cf \in {GetCollaborativeFiltering(store, c, client, f, loaded,
                                                          u, larger, e)} })

(* get_hybrid_recommendations, lines 372-478 *)
GetHybrid(store, c, client, f, loaded, hybrid, u, l, e) ==
    Except(TryGetHybrid(store, c, client, f, loaded, hybrid, u, l, e),
           GetContentBased(store, c, client, f, u, l, e))

---------------------------------------------------------------------------
(* MovieService.get_movies (movie_service.py) *)

(* the calls one get_movies made: cache lookups, the (skip, limit) of its *)
(* repository calls, cache writes                                         *)
Calls(lookups, repo, writes) == [lookups |-> lookups, repo |-> repo, writes |-> writes]

(* lines 67-86: the documents as MovieResponse objects; a document that   *)
(* does not convert is skipped                                            *)
ConvertedMovies(docs) ==
    Ids(SelectIdx(docs, {i \in 1..Len(docs) : docs[i].wellformed}))

(* the try block of lines 49-97 *)
TryGetMoviesList(c, client, f, skip, l) ==
    LET key == MoviesListKey(skip, l)
        by == <<"movies", IntStr(skip), l, FALSE>>
        got == CacheGetJson(c, client, f.cache, key)
        movies == ConvertedMovies(GetMoviesPage(skip, l, f.db))
        after == IF movies # <<>>
                 THEN CacheSetJson(c, client, f.cache, key,
                          Entry(movies, "resp", MOVIE_CACHE_TTL, by, 0)).cache
                 ELSE c
    IN  IF got.some /\ got.entry.val # <<>>
        THEN Traced(ServeCached(c, key, got.entry, "resp"), Calls(1, <<>>, 0))
        ELSE Traced(Response(movies, FALSE, FALSE, TRUE, after, key, by, 0),
                    Calls(1, <<[skip |-> skip, limit |-> l]>>,
                          IF movies # <<>> THEN 1 ELSE 0))

(* get_movies, lines 38-103 *)
GetMoviesList(c, client, f, skip, l) ==
    Except(TryGetMoviesList(c, client, f, skip, l),
           Traced(Response(<<>>, FALSE, FALSE, TRUE, c, MoviesListKey(skip, l),
                           <<"movies", IntStr(skip), l, FALSE>>, 0),
                  Calls(1, <<>>, 0)))

---------------------------------------------------------------------------
(* InteractionService.create_interaction (interaction_service.py) *)

(* line 30: the body's userId wins over the token's user *)
EffectiveUser(tokenUser, bodyUser) == IF bodyUser # "" THEN bodyUser ELSE tokenUser

(* an invalidation that lets a cache failure out of create_interaction *)
InvalidateUserStrict(c, client, fault, u) ==
    LET del == CacheDeletePattern(c, client, fault, InvalidationPattern(u))
    IN  [cache |-> del.cache, deleted |-> del.deleted,
         raised |-> ~client \/ fault # "ok"]

(* lines 49-54: the invalidation; an exception of delete_pattern is logged *)
(* and dropped                                                            *)
InvalidateUser(c, client, fault, u) ==
    LET del == CacheDeletePattern(c, client, fault, InvalidationPattern(u))
    IN  [cache |-> IF del.raised THEN c ELSE del.cache,
         deleted |-> IF del.raised THEN {} ELSE del.deleted,
         raised |-> FALSE]

(* create_interaction without the test of the insert's result *)
CreateInteractionUnchecked(store, c, client, f, tokenUser, body) ==
    LET u == EffectiveUser(tokenUser, body.userId)
        ins == RepoCreateInteraction(store,
                   ApiInteraction(u, body.movieId, body.type, body.value), f.db)
        inv == InvalidateUser(c, client, f.cache, u)
    IN  IF inv.raised
        THEN [raised |-> TRUE, id |-> ins.id, user |-> u, store |-> ins.store,
              cache |-> inv.cache, deleted |-> {}]
        ELSE [raised |-> FALSE, id |-> ins.id, user |-> u, store |-> ins.store,
              cache |-> inv.cache, deleted |-> inv.deleted]

(* lines 28-73: [raised] is InteractionServiceError *)
CreateInteraction(store, c, client, f, tokenUser, body) ==
    LET u == EffectiveUser(tokenUser, body.userId)
        ins == RepoCreateInteraction(store,
                   ApiInteraction(u, body.movieId, body.type, body.value), f.db)
        inv == InvalidateUser(c, client, f.cache, u)
    IN  IF ins.id = 0
        THEN [raised |-> TRUE, id |-> 0, user |-> u, store |-> store, cache |-> c,
              deleted |-> {}]
        ELSE IF inv.raised
             THEN [raised |-> TRUE, id |-> ins.id, user |-> u, store |-> ins.store,
                   cache |-> inv.cache, deleted |-> {}]
             ELSE [raised |-> FALSE, id |-> ins.id, user |-> u, store |-> ins.store,
                   cache |-> inv.cache, deleted |-> inv.deleted]

---------------------------------------------------------------------------
(* The record of the call that returned last.  `cached` is the keyspace   *)
(* a create_interaction found.  `after` places a recommender call:        *)
(* "overlap" while the identical call is suspended at an await; "same"    *)
(* right after the identical call; "write" right after a successful       *)
(* create_interaction of its user, made with the cache reachable, that    *)
(* found the call's key cached; "other" otherwise.                        *)

(* no coroutine *)
Idle == [pc |-> "idle"]

NoLast ==
    [op |-> "none", user |-> "", limit |-> 0, excl |-> FALSE, token |-> "",
     raised |-> FALSE, result |-> <<>>, hit |-> FALSE, reads |-> FALSE,
     by |-> <<>>, basis |-> 0, acked |-> 0, deleted |-> {}, cached |-> {},
     id |-> 0, cacheOk |-> TRUE, cacheFault |-> "ok", dbOk |-> TRUE,
     caught |-> FALSE, after |-> "other", trace |-> <<>>]

After(op, u, l, e, key) ==
    IF peer # Idle /\ peer.user = u /\ peer.limit = l /\ peer.excl = e
    THEN "overlap"
    ELSE IF last.op = op /\ last.user = u /\ last.limit = l /\ last.excl = e
         THEN "same"
         ELSE IF last.op = "create_interaction" /\ ~last.raised /\ last.user = u
                 /\ last.cacheOk /\ key \in last.cached
              THEN "write"
              ELSE "other"

(* what a recommender call leaves in `last` *)
Returned(op, u, l, e, f, r, acked) ==
    [op |-> op, user |-> u, limit |-> l, excl |-> e, token |-> "",
     raised |-> r.raised, result |-> r.result, hit |-> r.hit, reads |-> r.reads,
     by |-> r.by, basis |-> r.basis, acked |-> acked, deleted |-> {},
     cached |-> {}, id |-> 0,
     cacheOk |-> redisClient /\ f.cache = "ok", cacheFault |-> f.cache,
     dbOk |-> f.db = "ok",
     caught |-> r.caught, after |-> After(op, u, l, e, r.key), trace |-> r.trace]

(* what create_interaction leaves in `last` *)
Created(tokenUser, f, r) ==
    [op |-> "create_interaction", user |-> r.user, limit |-> 0, excl |-> FALSE,
     token |-> tokenUser, raised |-> r.raised, result |-> <<>>, hit |-> FALSE,
     reads |-> FALSE, by |-> <<>>, basis |-> 0, acked |-> 0,
     deleted |-> r.deleted, cached |-> DOMAIN cache, id |-> r.id,
     cacheOk |-> redisClient /\ f.cache = "ok", cacheFault |-> f.cache,
     dbOk |-> f.db = "ok",
     caught |-> FALSE, after |-> "other", trace |-> <<>>]

Faults == [cache : CacheFaults, db : DbFaults]

NoFault == [cache |-> "ok", db |-> "ok"]

(* the interactions of u whose create_interaction has returned *)
Acked(u) ==
    Cardinality({i \in 1..Len(interactions) : IsApiOf(interactions[i], u)})
    - (IF writer.pc = "inserted" /\ writer.user = u THEN 1 ELSE 0)

---------------------------------------------------------------------------
(* Actions: each call as one step *)

DoCreateInteraction(tokenUser, body, f) ==
    /\ task = Idle /\ writer = Idle
    /\ Cardinality({i \in 1..Len(interactions) : interactions[i].fmt = "api"})
          < MaxInteractions
    /\ LET r == CreateInteraction(interactions, cache, redisClient, f,
                                  tokenUser, body)
       IN  /\ interactions' = r.store
           /\ cache' = r.cache
           /\ last' = Created(tokenUser, f, r)
    /\ UNCHANGED <<redisClient, cfLoaded, hybridLoaded, task, writer, peer,
                   redisConnectionAttempted>>

DoGetRecommendationsForUser(u, l, e, f) ==
    /\ task = Idle /\ writer = Idle
    /\ LET r == GetRecommendationsForUser(interactions, cache, redisClient, f, u, l, e)
       IN  /\ cache' = r.cache
           /\ last' = Returned("get_recommendations_for_user", u, l, e, f, r, Acked(u))
    /\ UNCHANGED <<interactions, redisClient, cfLoaded, hybridLoaded, task,
                   writer, peer, redisConnectionAttempted>>

DoGetSimilarMovies(m, l, f) ==
    /\ task = Idle /\ writer = Idle
    /\ LET r == GetSimilarMovies(cache, redisClient, f, m, l)
       IN  /\ cache' = r.cache
           /\ last' = Returned("get_similar_movies", m, l, FALSE, f, r, 0)
    /\ UNCHANGED <<interactions, redisClient, cfLoaded, hybridLoaded, task,
                   writer, peer, redisConnectionAttempted>>

DoGetPopularMovies(l, f) ==
    /\ task = Idle /\ writer = Idle
    /\ LET r == GetPopularMovies(interactions, cache, redisClient, f, l)
       IN  /\ cache' = r.cache
           /\ last' = Returned("get_popular_movies", "", l, FALSE, f, r, 0)
    /\ UNCHANGED <<interactions, redisClient, cfLoaded, hybridLoaded, task,
                   writer, peer, redisConnectionAttempted>>

DoGetUserRecommendations(u, l, f) ==
    /\ task = Idle /\ writer = Idle
    /\ LET r == GetUserRecommendations(interactions, cache, redisClient, f, u, l)
       IN  /\ cache' = r.cache
           /\ last' = Returned("get_user_recommendations", u, l, FALSE, f, r, Acked(u))
    /\ UNCHANGED <<interactions, redisClient, cfLoaded, hybridLoaded, task,
                   writer, peer, redisConnectionAttempted>>

DoModuleGetPopularMovies(l, f) ==
    /\ task = Idle /\ writer = Idle
    /\ LET r == ModuleGetPopularMovies(interactions, cache, redisClient, f, l)
       IN  /\ cache' = r.cache
           /\ last' = Returned("module.get_popular_movies", "", l, FALSE, f, r, 0)
    /\ UNCHANGED <<interactions, redisClient, cfLoaded, hybridLoaded, task,
                   writer, peer, redisConnectionAttempted>>

DoGetCollaborativeFiltering(u, l, e, f) ==
    /\ task = Idle /\ writer = Idle
    /\ LET r == GetCollaborativeFiltering(interactions, cache, redisClient, f,
                                          cfLoaded, u, l, e)
       IN  /\ cache' = r.cache
           /\ last' = Returned("get_collaborative_filtering_recommendations",
                               u, l, e, f, r, Acked(u))
    /\ UNCHANGED <<interactions, redisClient, cfLoaded, hybridLoaded, task,
                   writer, peer, redisConnectionAttempted>>

DoGetContentBased(u, l, e, f) ==
    /\ task = Idle /\ writer = Idle
    /\ LET r == GetContentBased(interactions, cache, redisClient, f, u, l, e)
       IN  /\ cache' = r.cache
           /\ last' = Returned("get_content_based_recommendations",
                               u, l, e, f, r, Acked(u))
    /\ UNCHANGED <<interactions, redisClient, cfLoaded, hybridLoaded, task,
                   writer, peer, redisConnectionAttempted>>

DoGetHybrid(u, l, e, f) ==
    /\ task = Idle /\ writer = Idle
    /\ LET r == GetHybrid(interactions, cache, redisClient, f, cfLoaded,
                          hybridLoaded, u, l, e)
       IN  /\ cache' = r.cache
           /\ last' = Returned("get_hybrid_recommendations", u, l, e, f, r, Acked(u))
    /\ UNCHANGED <<interactions, redisClient, cfLoaded, hybridLoaded, task,
                   writer, peer, redisConnectionAttempted>>

DoAdvGetPopularMovies(l, f) ==
    /\ task = Idle /\ writer = Idle
    /\ LET r == AdvGetPopularMovies(cache, redisClient, f, l)
       IN  /\ cache' = r.cache
           /\ last' = Returned("advanced.get_popular_movies", "", l, FALSE, f, r, 0)
    /\ UNCHANGED <<interactions, redisClient, cfLoaded, hybridLoaded, task,
                   writer, peer, redisConnectionAttempted>>

DoGetMoviesList(skip, l, f) ==
    /\ task = Idle /\ writer = Idle
    /\ LET r == GetMoviesList(cache, redisClient, f, skip, l)
       IN  /\ cache' = r.cache
           /\ last' = Returned("get_movies", IntStr(skip), l, FALSE, f, r, 0)
    /\ UNCHANGED <<interactions, redisClient, cfLoaded, hybridLoaded, task,
                   writer, peer, redisConnectionAttempted>>

(* lines 424-463 of get_hybrid_recommendations: the coroutine, past its   *)
(* two awaits with the lists cf and cb they returned, blends them         *)
DoHybridBlend ==
    /\ task.pc = "blend"
    /\ last' = [NoLast EXCEPT !.op = "hybrid.blend", !.limit = task.limit,
                              !.result = BlendTop(task.cf, task.cb, task.limit),
                              !.trace = BlendTrace(task.cf, task.cb)]
    /\ task' = Idle
    /\ UNCHANGED <<interactions, cache, redisClient, cfLoaded, hybridLoaded,
                   writer, peer, redisConnectionAttempted>>

---------------------------------------------------------------------------
(* Actions: get_recommendations_for_user and create_interaction as        *)
(* coroutines.  The cache calls are synchronous; the event loop may run   *)
(* the other coroutine at each awaited store call.                        *)

(* lines 45-51: the lookup; a hit returns at once *)
StartGetRecommendationsForUser(u, l, e) ==
    /\ task = Idle
    /\ LET look == UserCacheLookup(cache, redisClient, NoFault, u, l, e)
           r == GetRecommendationsForUser(interactions, cache, redisClient, NoFault,
                                          u, l, e)
       IN  IF look.hit
           THEN /\ last' = Returned("get_recommendations_for_user", u, l, e, NoFault,
                                    r, Acked(u))
                /\ task' = Idle
           ELSE /\ task' = [pc |-> "profile", user |-> u, limit |-> l, excl |-> e,
                            acked |-> Acked(u), profile |-> <<>>, seen |-> {}]
                /\ last' = last
    /\ UNCHANGED <<interactions, cache, redisClient, cfLoaded, hybridLoaded,
                   writer, peer, redisConnectionAttempted>>

(* lines 56-65: await get_user_interactions; without interactions the     *)
(* defaults are returned                                                  *)
ReadUserInteractions ==
    /\ task.pc = "profile"
    /\ LET profile == GetUserInteractions(interactions, task.user, PROFILE_LIMIT, "ok")
           r == Response(DefaultRecommendations(task.limit, "ok"), FALSE, FALSE, TRUE,
                         cache, UserKey(task.user, task.limit, task.excl),
                         <<"user", task.user, task.limit, task.excl>>, 0)
       IN  IF profile = <<>>
           THEN /\ last' = Returned("get_recommendations_for_user", task.user,
                                    task.limit, task.excl, NoFault, r, task.acked)
                /\ task' = Idle
           ELSE /\ task' = [task EXCEPT !.pc = IF task.excl THEN "seen" ELSE "score",
                                        !.profile = profile]
                /\ last' = last
    /\ UNCHANGED <<interactions, cache, redisClient, cfLoaded, hybridLoaded,
                   writer, peer, redisConnectionAttempted>>

(* lines 74-79: await get_user_movie_ids *)
ReadUserMovieIds ==
    /\ task.pc = "seen"
    /\ task' = [task EXCEPT !.pc = "score",
                            !.seen = GetUserMovieIds(interactions, task.user, "ok")]
    /\ UNCHANGED <<interactions, cache, redisClient, cfLoaded, hybridLoaded,
                   writer, peer, redisConnectionAttempted, last>>

(* lines 82-182: the scoring over the movies collection, the write-back   *)
(* and the return                                                         *)
FinishGetRecommendationsForUser ==
    /\ task.pc = "score"
    /\ LET r == UserStoreResult(cache, redisClient, NoFault, task.user, task.limit,
                    task.excl,
                    RankedRecommendations(task.profile, task.seen, task.limit, "ok"),
                    Len(task.profile))
       IN  /\ cache' = r.cache
           /\ last' = Returned("get_recommendations_for_user", task.user, task.limit,
                               task.excl, NoFault, r, task.acked)
    /\ task' = Idle
    /\ UNCHANGED <<interactions, redisClient, cfLoaded, hybridLoaded, writer,
                   peer, redisConnectionAttempted>>

(* lines 30-44: await interaction_repo.create_interaction *)
InsertInteraction(tokenUser, body) ==
    /\ writer = Idle
    /\ Cardinality({i \in 1..Len(interactions) : interactions[i].fmt = "api"})
          < MaxInteractions
    /\ LET u == EffectiveUser(tokenUser, body.userId)
           ins == RepoCreateInteraction(interactions,
                      ApiInteraction(u, body.movieId, body.type, body.value), "ok")
       IN  /\ interactions' = ins.store
           /\ writer' = [pc |-> "inserted", user |-> u, token |-> tokenUser,
                         id |-> ins.id]
    /\ UNCHANGED <<cache, redisClient, cfLoaded, hybridLoaded, task, peer,
                   redisConnectionAttempted, last>>

(* lines 46-70: the invalidation and the return *)
FinishCreateInteraction ==
    /\ writer.pc = "inserted"
    /\ LET inv == InvalidateUser(cache, redisClient, "ok", writer.user)
       IN  /\ cache' = inv.cache
           /\ last' = Created(writer.token, NoFault,
                          [raised |-> inv.raised, id |-> writer.id,
                           user |-> writer.user, deleted |-> inv.deleted])
    /\ writer' = Idle
    /\ UNCHANGED <<interactions, redisClient, cfLoaded, hybridLoaded, task, peer,
                   redisConnectionAttempted>>

(* the event loop suspends the coroutine it runs at its await and runs    *)
(* the other one, or is free for a new request                            *)
Yield ==
    /\ task # peer
    /\ writer = Idle
    /\ task' = peer
    /\ peer' = task
    /\ UNCHANGED <<interactions, cache, redisClient, cfLoaded, hybridLoaded,
                   writer, redisConnectionAttempted, last>>

---------------------------------------------------------------------------
(* Spec: the write path and RecommendationService.get_recommendations_for_user, *)
(* each call uninterrupted, cache and stores reachable                          *)

Init ==
    /\ interactions = <<>>
    /\ cache = <<>>
    /\ redisClient = TRUE
    /\ cfLoaded = FALSE
    /\ hybridLoaded = FALSE
    /\ task = Idle
    /\ writer = Idle
    /\ peer = Idle
    /\ redisConnectionAttempted = TRUE
    /\ last = NoLast

Next ==
    \/ \E tokenUser \in Users, body \in Bodies :
          DoCreateInteraction(tokenUser, body, NoFault)
    \/ \E u \in Requesters, l \in Limits, e \in BOOLEAN :
          DoGetRecommendationsForUser(u, l, e, NoFault)

Spec == Init /\ [][Next]_vars

---------------------------------------------------------------------------
(* SpecAdvanced: the write path and AdvancedRecommendationService, each   *)
(* call uninterrupted, cache and stores reachable; the model artifacts    *)
(* are loaded or not at startup                                           *)

InitAdvanced ==
    /\ interactions = <<>>
    /\ cache = <<>>
    /\ redisClient = TRUE
    /\ cfLoaded \in BOOLEAN
    /\ hybridLoaded \in BOOLEAN
    /\ task = Idle
    /\ writer = Idle
    /\ peer = Idle
    /\ redisConnectionAttempted = TRUE
    /\ last = NoLast

NextAdvanced ==
    \/ \E tokenUser \in Requesters, body \in Bodies :
          DoCreateInteraction(tokenUser, body, NoFault)
    \/ \E u \in Requesters, l \in Limits, e \in BOOLEAN :
          DoGetCollaborativeFiltering(u, l, e, NoFault)
    \/ \E u \in Requesters : DoGetContentBased(u, HybridLimit, TRUE, NoFault)
    \/ \E u \in Requesters : DoGetHybrid(u, HybridLimit, TRUE, NoFault)
    \/ DoAdvGetPopularMovies(HybridLimit, NoFault)

SpecAdvanced == InitAdvanced /\ [][NextAdvanced]_vars

---------------------------------------------------------------------------
(* SpecFaults: every service call, each uninterrupted, with the cache and *)
(* the database reachable or failing for the length of the call; Redis    *)
(* connected at startup or not                                            *)

InitFaults ==
    /\ interactions = <<>>
    /\ cache = <<>>
    /\ redisClient \in BOOLEAN
    /\ cfLoaded = TRUE
    /\ hybridLoaded = TRUE
    /\ task = Idle
    /\ writer = Idle
    /\ peer = Idle
    /\ redisConnectionAttempted = TRUE
    /\ last = NoLast

NextFaults ==
    \/ \E tokenUser \in Requesters, body \in RatingBodies, f \in Faults :
          DoCreateInteraction(tokenUser, body, f)
    \/ \E u \in Requesters, f \in Faults :
          DoGetRecommendationsForUser(u, HybridLimit, TRUE, f)
    \/ \E m \in SimilarSources, f \in Faults : DoGetSimilarMovies(m, HybridLimit, f)
    \/ \E f \in Faults : DoGetPopularMovies(HybridLimit, f)
    \/ \E u \in Requesters, f \in Faults :
          DoGetCollaborativeFiltering(u, HybridLimit, TRUE, f)
    \/ \E u \in Requesters, f \in Faults :
          DoGetContentBased(u, HybridLimit, TRUE, f)
    \/ \E u \in Requesters, f \in Faults :
          DoGetHybrid(u, HybridLimit, TRUE, f)
    \/ \E f \in Faults : DoAdvGetPopularMovies(HybridLimit, f)

SpecFaults == InitFaults /\ [][NextFaults]_vars

---------------------------------------------------------------------------
(* SpecModule: the write path, the module-level functions and             *)
(* RecommendationService.get_popular_movies over a store the ETL has      *)
(* loaded or an empty one; cache and stores reachable                     *)

InitModule ==
    /\ interactions \in {EtlSeed, <<>>}
    /\ cache = <<>>
    /\ redisClient = TRUE
    /\ cfLoaded = FALSE
    /\ hybridLoaded = FALSE
    /\ task = Idle
    /\ writer = Idle
    /\ peer = Idle
    /\ redisConnectionAttempted = TRUE
    /\ last = NoLast

NextModule ==
    \/ \E tokenUser \in Requesters, body \in Bodies :
          DoCreateInteraction(tokenUser, body, NoFault)
    \/ \E u \in Requesters, l \in Limits : DoGetUserRecommendations(u, l, NoFault)
    \/ \E l \in Limits : DoModuleGetPopularMovies(l, NoFault)
    \/ \E l \in Limits : DoGetPopularMovies(l, NoFault)

SpecModule == InitModule /\ [][NextModule]_vars

---------------------------------------------------------------------------
(* SpecConcurrent: one get_recommendations_for_user and one               *)
(* create_interaction at a time, interleaved at their awaits; cache and   *)
(* stores reachable                                                       *)

NextConcurrent ==
    \/ \E u \in Requesters, l \in Limits, e \in BOOLEAN :
          StartGetRecommendationsForUser(u, l, e)
    \/ ReadUserInteractions
    \/ ReadUserMovieIds
    \/ FinishGetRecommendationsForUser
    \/ \E tokenUser \in Requesters, body \in Bodies : InsertInteraction(tokenUser, body)
    \/ FinishCreateInteraction

SpecConcurrent == Init /\ [][NextConcurrent]_vars

---------------------------------------------------------------------------
(* SpecOwnership: the write path called by either user with a body that   *)
(* leaves userId empty or names a user, and get_recommendations_for_user  *)
(* of either user; cache and stores reachable                             *)

(* InteractionBase.userId is a required string of the body, of any       *)
(* content                                                                *)
OwnershipBodies ==
    { Body("", "m1", "rate", 5), Body("u1", "m2", "view", NoValue),
      Body("u2", "m3", "rate", 4), Body("*", "m1", "view", NoValue) }

NextOwnership ==
    \/ \E tokenUser \in Users, body \in OwnershipBodies :
          DoCreateInteraction(tokenUser, body, NoFault)
    \/ \E u \in Users, l \in Limits :
          DoGetRecommendationsForUser(u, l, TRUE, NoFault)

SpecOwnership == Init /\ [][NextOwnership]_vars

---------------------------------------------------------------------------
(* SpecMovies: MovieService.get_movies over the pages of the collection;  *)
(* cache and stores reachable                                             *)

NextMovies == \E skip \in Skips, l \in Limits : DoGetMoviesList(skip, l, NoFault)

SpecMovies == Init /\ [][NextMovies]_vars

---------------------------------------------------------------------------
(* SpecBlend: the blender of get_hybrid_recommendations on every pair of  *)
(* lists of distinct movies of up to MaxBlendLen elements                 *)

RecLists ==
    {s \in UNION {[1..n -> MovieIds] : n \in 0..MaxBlendLen} :
        \A i, j \in 1..Len(s) : i # j => s[i] # s[j]}

InitBlend ==
    /\ interactions = <<>>
    /\ cache = <<>>
    /\ redisClient = TRUE
    /\ cfLoaded = TRUE
    /\ hybridLoaded = TRUE
    /\ task \in [pc : {"blend"}, limit : Limits, cf : RecLists, cb : RecLists]
    /\ writer = Idle
    /\ peer = Idle
    /\ redisConnectionAttempted = TRUE
    /\ last = NoLast

NextBlend == DoHybridBlend

SpecBlend == InitBlend /\ [][NextBlend]_vars

---------------------------------------------------------------------------
(* SpecColdUser: the collaborative and the content-based recommender for  *)
(* a user of the user-mapping table and for one absent from it who has    *)
(* seen every movie; model and mappings loaded, cache and stores          *)
(* reachable                                                              *)

(* the interactions of a user absent from CfUserMap with every movie *)
ColdSeed ==
    [i \in 1..Len(Movies) |->
        ApiInteraction(CHOOSE u \in Users : u \notin CfUserMap, Movies[i].id,
                       "view", NoValue)]

InitColdUser ==
    /\ interactions = ColdSeed
    /\ cache = <<>>
    /\ redisClient = TRUE
    /\ cfLoaded = TRUE
    /\ hybridLoaded = FALSE
    /\ task = Idle
    /\ writer = Idle
    /\ peer = Idle
    /\ redisConnectionAttempted = TRUE
    /\ last = NoLast

NextColdUser ==
    \/ \E u \in Users, l \in Limits, e \in BOOLEAN :
          DoGetCollaborativeFiltering(u, l, e, NoFault)
    \/ \E u \in Users, l \in Limits, e \in BOOLEAN :
          DoGetContentBased(u, l, e, NoFault)

SpecColdUser == InitColdUser /\ [][NextColdUser]_vars

---------------------------------------------------------------------------
(* SpecDuplicate: two get_recommendations_for_user coroutines interleaved *)
(* at their awaits over a store that is not written; cache and stores     *)
(* reachable                                                              *)

(* what earlier create_interaction calls left in the store: nothing, a    *)
(* rating of a movie with or without an embedding, a rating and a view    *)
StoredProfiles ==
    { <<>>,
      <<ApiInteraction("u1", "m1", "rate", 5)>>,
      <<ApiInteraction("u1", "m4", "rate", 5)>>,
      <<ApiInteraction("u1", "m1", "rate", 5),
        ApiInteraction("u1", "m2", "view", NoValue)>> }

InitDuplicate ==
    /\ interactions \in StoredProfiles
    /\ cache = <<>>
    /\ redisClient = TRUE
    /\ cfLoaded = FALSE
    /\ hybridLoaded = FALSE
    /\ task = Idle
    /\ writer = Idle
    /\ peer = Idle
    /\ redisConnectionAttempted = TRUE
    /\ last = NoLast

NextDuplicate ==
    \/ \E u \in Requesters, l \in Limits, e \in BOOLEAN :
          StartGetRecommendationsForUser(u, l, e)
    \/ ReadUserInteractions
    \/ ReadUserMovieIds
    \/ FinishGetRecommendationsForUser
    \/ Yield

SpecDuplicate == InitDuplicate /\ [][NextDuplicate]_vars

---------------------------------------------------------------------------
(* SpecSimilar: get_similar_movies for movies with and without an         *)
(* embedding, with the cache and the database reachable or failing for    *)
(* the length of the call                                                 *)

NextSimilar ==
    \E m \in SimilarSources \cup {"m2"}, l \in Limits, f \in Faults :
        DoGetSimilarMovies(m, l, f)

SpecSimilar == Init /\ [][NextSimilar]_vars

---------------------------------------------------------------------------
(* core/database.py: the connections made at startup *)

(* connect_to_mongodb, line 17: max_retries *)
MONGODB_MAX_RETRIES == 5

(* connect_to_mongodb, line 18: retry_delay *)
MONGODB_RETRY_DELAY == 1

(* connect_to_mongodb, line 40: the cap of the delay *)
MONGODB_DELAY_CAP == 30

(* init_redis, line 77: max_retries *)
REDIS_MAX_RETRIES == 3

(* a delay that is not increased *)
NextRetryDelayFixed(d) == d

(* line 40: retry_delay = min(retry_delay * 2, 30) *)
NextRetryDelay(d) == Min(d * 2, MONGODB_DELAY_CAP)

(* what connect_to_mongodb did when it returned or raised: the attempts   *)
(* it made, the delays it slept, and the attempt whose error it raised    *)
Connected(t, raised) ==
    [NoLast EXCEPT !.op = "connect_to_mongodb",
                   !.raised = raised,
                   !.trace = [attempts |-> t.attempt + 1,
                              slept |-> t.slept,
                              error |-> IF raised THEN t.attempt + 1 ELSE 0]]

(* lines 16-20: the locals of the call before the first attempt *)
StartConnectToMongodb ==
    /\ task = Idle /\ writer = Idle
    /\ task' = [pc |-> "ping", attempt |-> 0,
                retry_delay |-> MONGODB_RETRY_DELAY, slept |-> <<>>]
    /\ UNCHANGED <<interactions, cache, redisClient, cfLoaded, hybridLoaded,
                   writer, peer, redisConnectionAttempted, last>>

(* lines 21-43: one attempt; the ping answers or raises; after a failure  *)
(* that is not the last the call sleeps, after the last it re-raises      *)
PingMongodb(ok) ==
    /\ task.pc = "ping"
    /\ IF ok
       THEN /\ task' = Idle
            /\ last' = Connected(task, FALSE)
       ELSE IF task.attempt < MONGODB_MAX_RETRIES - 1
            THEN /\ task' = [task EXCEPT !.pc = "sleep"]
                 /\ UNCHANGED last
            ELSE /\ task' = Idle
                 /\ last' = Connected(task, TRUE)
    /\ UNCHANGED <<interactions, cache, redisClient, cfLoaded, hybridLoaded,
                   writer, peer, redisConnectionAttempted>>

(* lines 38-40: the sleep is over; the delay of the next one, and the     *)
(* next pass of the loop                                                  *)
WakeConnectToMongodb ==
    /\ task.pc = "sleep"
    /\ task' = [pc |-> "ping", attempt |-> task.attempt + 1,
                retry_delay |-> NextRetryDelay(task.retry_delay),
                slept |-> Append(task.slept, task.retry_delay)]
    /\ UNCHANGED <<interactions, cache, redisClient, cfLoaded, hybridLoaded,
                   writer, peer, redisConnectionAttempted, last>>

(* settings.ENV (config.py line 168) *)
Envs == {"development", "production"}

(* the Redis settings: REDIS_HOST, else the variable REDIS_URL, else none *)
RedisConfigs == {"host", "url", "none"}

(* whether the pings of one pass of the loop answer: localhost, and the   *)
(* configured server                                                      *)
RedisOutcomes == [1..REDIS_MAX_RETRIES -> [local : BOOLEAN, configured : BOOLEAN]]

(* init_redis, lines 80-140: the passes of the loop from pass `attempt`   *)
(* on. A ping that fails is caught by the try around it (lines 98-99,     *)
(* 116-118, 131-133) and the pass ends without a sleep; nothing outside   *)
(* those tries raises, so the handler of lines 142-151 is not entered.    *)
(* [attempts] counts the passes, [pings] the connections tried            *)
RECURSIVE InitRedisLoop(_, _, _, _, _)
InitRedisLoop(attempt, env, conf, outcomes, pings) ==
    IF attempt = REDIS_MAX_RETRIES
    THEN [client |-> FALSE, attempts |-> attempt, pings |-> pings]
    ELSE LET o == outcomes[attempt + 1]
             local == env \in {"development", "testing"}
             tried == IF local THEN pings + 1 ELSE pings
         IN  IF local /\ o.local
             THEN [client |-> TRUE, attempts |-> attempt + 1, pings |-> tried]
             ELSE IF conf = "none"
                  THEN [client |-> FALSE, attempts |-> attempt + 1, pings |-> tried]
                  ELSE IF o.configured
                       THEN [client |-> TRUE, attempts |-> attempt + 1,
                             pings |-> tried + 1]
                       ELSE InitRedisLoop(attempt + 1, env, conf, outcomes,
                                          tried + 1)

(* init_redis without the test of _redis_connection_attempted *)
InitRedisUnflagged(attempted, client, env, conf, outcomes) ==
    LET r == InitRedisLoop(0, env, conf, outcomes, 0)
    IN  [attempted |-> TRUE, client |-> r.client, attempts |-> r.attempts,
         pings |-> r.pings, raised |-> FALSE]

(* init_redis, lines 68-151 *)
InitRedis(attempted, client, env, conf, outcomes) ==
    LET r == InitRedisLoop(0, env, conf, outcomes, 0)
    IN  IF attempted
        THEN [attempted |-> TRUE, client |-> client, attempts |-> 0, pings |-> 0,
              raised |-> FALSE]
        ELSE [attempted |-> TRUE, client |-> r.client, attempts |-> r.attempts,
              pings |-> r.pings, raised |-> FALSE]

(* one awaited init_redis(); it has no await on the paths it can take and *)
(* runs uninterrupted                                                     *)
DoInitRedis(env, conf, outcomes) ==
    /\ task = Idle /\ writer = Idle
    /\ LET r == InitRedis(redisConnectionAttempted, redisClient, env, conf,
                          outcomes)
       IN  /\ redisConnectionAttempted' = r.attempted
           /\ redisClient' = r.client
           /\ last' = [NoLast EXCEPT !.op = "init_redis",
                                     !.raised = r.raised,
                                     !.cacheOk = r.client,
                                     !.trace = [attempts |-> r.attempts,
                                                pings |-> r.pings,
                                                first |-> ~redisConnectionAttempted]]
    /\ UNCHANGED <<interactions, cache, cfLoaded, hybridLoaded, task, writer,
                   peer>>

---------------------------------------------------------------------------
(* SpecStartup: the process before its first request: no Redis client,    *)
(* no connection attempted; connect_to_mongodb and init_redis are called, *)
(* one at a time, any number of times                                     *)

InitStartup ==
    /\ interactions = <<>>
    /\ cache = <<>>
    /\ redisClient = FALSE
    /\ cfLoaded = FALSE
    /\ hybridLoaded = FALSE
    /\ task = Idle
    /\ writer = Idle
    /\ peer = Idle
    /\ redisConnectionAttempted = FALSE
    /\ last = NoLast

NextStartup ==
    \/ StartConnectToMongodb
    \/ \E ok \in BOOLEAN : PingMongodb(ok)
    \/ WakeConnectToMongodb
    \/ \E env \in Envs, conf \in RedisConfigs, outcomes \in RedisOutcomes :
          DoInitRedis(env, conf, outcomes)

SpecStartup == InitStartup /\ [][NextStartup]_vars

---------------------------------------------------------------------------
(* The vocabulary of the properties *)

(* a recommendation key of user u under the user, cf, cb or hybrid strategy *)
IsRecommendationKeyOf(k, u) ==
    \/ Len(k) = 5 /\ SubSeq(k, 1, 3) = <<"recommendations", "user", u>>
    \/ /\ Len(k) = 6
       /\ k[1] = "recommendations"
       /\ k[2] \in {"cf", "cb", "hybrid"}
       /\ k[3] = "user"
       /\ k[4] = u

(* the recommenders that take user_id, limit and exclude_seen *)
UserRecommenders ==
    { "get_recommendations_for_user",
      "get_collaborative_filtering_recommendations",
      "get_content_based_recommendations",
      "get_hybrid_recommendations" }

(* the recommenders whose body is one try block with a catch-all handler *)
NeverRaising ==
    { "get_recommendations_for_user", "get_similar_movies", "get_popular_movies",
      "get_hybrid_recommendations",
      "get_collaborative_filtering_recommendations",
      "get_content_based_recommendations", "advanced.get_popular_movies" }

(* the strategy an entry point computes, and whether it takes exclude_seen *)
Strategy(op) ==
    CASE op = "get_recommendations_for_user" -> "user"
      [] op = "get_user_recommendations" -> "rec"
      [] op = "get_similar_movies" -> "similar"
      [] op = "get_collaborative_filtering_recommendations" -> "cf"
      [] op = "get_content_based_recommendations" -> "cb"
      [] op = "get_hybrid_recommendations" -> "hybrid"
      [] op = "advanced.get_popular_movies" -> "adv_popular"
      [] op = "get_movies" -> "movies"
      [] OTHER -> "popular"

RequestOf(op, u, l, e) == <<Strategy(op), u, l, IF op \in UserRecommenders THEN e ELSE FALSE>>

(* the key a request uses *)
KeyOf(r) ==
    CASE r[1] = "user" -> UserKey(r[2], r[3], r[4])
      [] r[1] = "rec" -> LegacyUserKey(r[2], r[3])
      [] r[1] = "similar" -> SimilarKey(r[2], r[3])
      [] r[1] = "similar_db" -> SimilarDbKey(r[2], r[3])
      [] r[1] = "cf" -> CfKey(r[2], r[3], r[4])
      [] r[1] = "cb" -> CbKey(r[2], r[3], r[4])
      [] r[1] = "hybrid" -> HybridKey(r[2], r[3], r[4])
      [] r[1] = "adv_popular" -> AdvPopularKey(r[3])
      [] r[1] = "movies" -> <<"movies", "list", r[2], IntStr(r[3])>>
      [] OTHER -> PopularKey(r[3])

(* what the recommender of the last call computes from the stores on an  *)
(* empty, reachable cache, the database as it was for the call            *)
MissResult ==
    LET f == [cache |-> "ok", db |-> IF last.dbOk THEN "ok" ELSE "down"]
        u == last.user
        l == last.limit
        e == last.excl
    IN  CASE last.op = "get_recommendations_for_user" ->
                GetRecommendationsForUser(interactions, <<>>, TRUE, f, u, l, e).result
          [] last.op = "get_similar_movies" ->
                GetSimilarMovies(<<>>, TRUE, f, u, l).result
          [] last.op = "get_popular_movies" ->
                GetPopularMovies(interactions, <<>>, TRUE, f, l).result
          [] last.op = "get_collaborative_filtering_recommendations" ->
                GetCollaborativeFiltering(interactions, <<>>, TRUE, f, cfLoaded,
                                          u, l, e).result
          [] last.op = "get_content_based_recommendations" ->
                GetContentBased(interactions, <<>>, TRUE, f, u, l, e).result
          [] last.op = "get_hybrid_recommendations" ->
                GetHybrid(interactions, <<>>, TRUE, f, cfLoaded, hybridLoaded,
                          u, l, e).result
          [] OTHER -> AdvGetPopularMovies(<<>>, TRUE, f, l).result

(* the faults the last call ran under *)
FaultOf(call) == [cache |-> call.cacheFault, db |-> IF call.dbOk THEN "ok" ELSE "down"]

(* a key of one of the given strategies of AdvancedRecommendationService *)
IsStrategyKey(k, strategies) ==
    Len(k) >= 2 /\ k[1] = "recommendations" /\ k[2] \in strategies

(* the keyspace without the keys of the given strategies *)
Without(c, strategies) ==
    [k \in {j \in DOMAIN c : ~IsStrategyKey(j, strategies)} |-> c[k]]

(* a call left the keys of the given strategies as they were *)
Untouched(before, after, strategies) ==
    \A k \in DOMAIN before \cup DOMAIN after :
        IsStrategyKey(k, strategies)
        => k \in DOMAIN before /\ k \in DOMAIN after /\ after[k] = before[k]

(* the sum, over the profile interactions whose movie has an embedding    *)
(* and is not c, of similarity(movie, c) * weight(interaction)            *)
RECURSIVE WeightedSimilaritySum(_, _, _)
WeightedSimilaritySum(profile, c, db) ==
    IF profile = <<>> THEN 0
    ELSE LET x == Head(profile)
             src == GetEmbedding(x.movie, db)
         IN  (IF src = <<>> \/ x.movie = c THEN 0
              ELSE Similarity(src, GetEmbedding(c, db)) * InteractionWeight(x))
             + WeightedSimilaritySum(Tail(profile), c, db)

(* the number of stored interactions with movie m, of all users *)
InteractionCount(m) ==
    Cardinality({i \in 1..Len(interactions) : interactions[i].movie = m})

---------------------------------------------------------------------------
(* Properties *)

(* C1: once create_interaction has returned successfully for user U with  *)
(* the cache reachable, the cache holds no recommendation key of U under  *)
(* any strategy (user, cf, cb, hybrid).                                   *)
C1_NoRecommendationKeySurvives ==
    (/\ last.op = "create_interaction"
     /\ ~last.raised
     /\ last.cacheOk)
    => \A k \in DOMAIN cache : ~IsRecommendationKeyOf(k, last.user)

(* C2: however a get_recommendations_for_user request interleaves with a  *)
(* create_interaction of its user, a request that starts after            *)
(* create_interaction has returned is not answered from an interaction    *)
(* set older than that write: the list it returns was computed from at    *)
(* least as many interactions of the user as had been acknowledged when   *)
(* the request started.                                                   *)
C2_NoStaleListAfterWrite ==
    (last.op = "get_recommendations_for_user" /\ ~last.raised)
    => last.basis >= last.acked

(* C3: with the cache reachable, get_recommendations_for_user(U, l, e)    *)
(* made right after a successful create_interaction of U that found the   *)
(* key of (U, l, e) cached is a cache miss and reads the stores again.    *)
C3_MissAfterWrite ==
    (/\ last.op = "get_recommendations_for_user"
     /\ last.after = "write"
     /\ last.cacheOk)
    => (~last.hit /\ last.reads)

C3_Witness ==
    /\ last.op = "get_recommendations_for_user"
    /\ last.after = "write"
    /\ last.cacheOk
    /\ ~last.hit /\ last.reads
    /\ last.result # <<>>

(* C4: when the interaction was persisted and the cache invalidation      *)
(* failed (Redis not connected, down or refusing writes), the call        *)
(* create_interaction still returns the new id without raising            *)
(* InteractionServiceError, and the interaction is in the store.          *)
C4_InvalidationFailureTolerated ==
    (/\ last.op = "create_interaction"
     /\ last.id > 0
     /\ ~last.cacheOk)
    => /\ ~last.raised
       /\ last.id = Len(interactions)
       /\ IsApiOf(interactions[last.id], last.user)

C4_Witness ==
    /\ last.op = "create_interaction"
    /\ last.id > 0
    /\ ~last.cacheOk
    /\ ~last.raised
    /\ last.id = Len(interactions)
    /\ \E k \in DOMAIN cache : GlobMatch(InvalidationPattern(last.user), k)

(* C5: a request identical to the one that returned just before it, with  *)
(* no write in between and the cache reachable, is served from the cache: *)
(* it returns the same list and reads no store.                           *)
C5_RepeatServedFromCache ==
    [][ (/\ last'.op \in UserRecommenders
         /\ last'.after = "same"
         /\ last.cacheOk /\ last'.cacheOk)
        => (/\ last'.hit
            /\ ~last'.reads
            /\ last'.result = last.result) ]_vars

(* C6: cache keys are injective over (strategy, subject, limit,           *)
(* exclude_seen): when a request reads, under its key, the entry another  *)
(* request wrote under that key, the two requests have the same strategy, *)
(* subject, limit and flag.                                               *)
C6_KeysInjective ==
    (/\ last.op # "none" /\ last.op # "create_interaction"
     /\ last.hit
     /\ KeyOf(last.by) = KeyOf(RequestOf(last.op, last.user, last.limit, last.excl)))
    => last.by = RequestOf(last.op, last.user, last.limit, last.excl)

(* C7: every recommender returns at most `limit` movies, on a fresh       *)
(* computation, on a cache hit and on each fallback.                      *)
C7_AtMostLimit ==
    (last.op # "none" /\ last.op # "create_interaction")
    => Len(last.result) <= last.limit

(* C8: a recommender called with exclude_seen = True returns no movie the *)
(* user has an interaction with, on a cache hit after earlier writes and  *)
(* on the fallback paths as well.                                         *)
C8_SeenExcluded ==
    (/\ last.op \in UserRecommenders
     /\ last.excl)
    => \A i \in 1..Len(last.result) :
          last.result[i] \notin GetUserMovieIds(interactions, last.user, "ok")

(* C9: get_recommendations_for_user, get_similar_movies and               *)
(* get_popular_movies of RecommendationService and the hybrid, cf, cb and *)
(* popular recommenders of AdvancedRecommendationService never let an     *)
(* exception out: whatever fails inside, they return a list.              *)
C9_NeverRaises ==
    last.op \in NeverRaising
    => /\ ~last.raised
       /\ last.result \in Seq(MovieIds)

C9_Witness ==
    /\ last.op = "get_similar_movies"
    /\ last.caught
    /\ ~last.dbOk
    /\ ~last.raised
    /\ last.result = <<>>

(* C10: a user without stored interactions who asks for n personal        *)
(* recommendations gets the n movies with the most interactions: no movie *)
(* left out has more interactions than a movie returned, and the list is  *)
(* not empty when other users have interactions.                          *)
C10_ColdStartIsPopularity ==
    (/\ last.op = "get_recommendations_for_user"
     /\ ~last.raised
     /\ GetUserMovieIds(interactions, last.user, "ok") = {}
     /\ interactions # <<>>)
    => /\ last.result # <<>>
       /\ \A i \in 1..Len(last.result) : \A m \in MovieIds :
             m \notin Range(last.result)
             => InteractionCount(m) <= InteractionCount(last.result[i])

(* C11: get_popular_movies(limit), of the service and of the module,      *)
(* returns the `limit` movies with the largest interaction counts over    *)
(* all stored interactions whenever at least `limit` movies have          *)
(* interactions: no returned movie has a smaller count than an omitted    *)
(* one.                                                                   *)
C11_PopularIsTopByCount ==
    (/\ last.op \in {"get_popular_movies", "module.get_popular_movies"}
     /\ ~last.raised
     /\ Cardinality({m \in MovieIds : InteractionCount(m) > 0}) >= last.limit)
    => /\ Len(last.result) = last.limit
       /\ \A i \in 1..Len(last.result) : \A m \in MovieIds :
             m \notin Range(last.result)
             => InteractionCount(m) <= InteractionCount(last.result[i])

(* C12: an interaction stored by create_interaction belongs to the user   *)
(* of the caller's token, whatever the body contains: the stored user_id  *)
(* and the user whose cached recommendations are deleted are the token's  *)
(* user.                                                                  *)
C12_StoredForTokenUser ==
    (/\ last.op = "create_interaction"
     /\ ~last.raised)
    => /\ last.user = last.token
       /\ interactions[last.id].user = last.token
       /\ \A k \in last.deleted : IsRecommendationKeyOf(k, last.token)

C14_HybridFallsBackToContent ==
    [][ (/\ last'.op = "get_hybrid_recommendations"
         /\ ~hybridLoaded)
        => LET u == last'.user
               l == last'.limit
               e == last'.excl
               f == FaultOf(last')
               cb == GetContentBased(interactions, cache, redisClient, f, u, l, e)
               blind == GetContentBased(interactions, Without(cache, {"hybrid", "cf"}),
                                        redisClient, f, u, l, e)
           IN  /\ ~last'.raised
               /\ last'.result = cb.result
               /\ last'.result = blind.result
               /\ cache' = cb.cache
               /\ Untouched(cache, cache', {"hybrid", "cf"}) ]_vars

C14_Witness ==
    /\ last.op = "get_hybrid_recommendations"
    /\ ~hybridLoaded
    /\ cfLoaded
    /\ GetUserMovieIds(interactions, last.user, "ok") # {}
    /\ \E k \in DOMAIN cache : IsStrategyKey(k, {"cf"}) /\ k[4] = last.user
    /\ ~last.raised

(* C15: without the collaborative model or its id mappings                *)
(* get_collaborative_filtering_recommendations(U, limit, exclude_seen)    *)
(* returns the result of get_content_based_recommendations(U, limit,      *)
(* exclude_seen) and leaves the cache as that call leaves it; no          *)
(* prediction is made and no collaborative cache key is read or written.  *)
C15_CollaborativeFallsBackToContent ==
    [][ (/\ last'.op = "get_collaborative_filtering_recommendations"
         /\ ~cfLoaded)
        => LET u == last'.user
               l == last'.limit
               e == last'.excl
               f == FaultOf(last')
               cb == GetContentBased(interactions, cache, redisClient, f, u, l, e)
               blind == GetContentBased(interactions, Without(cache, {"cf"}),
                                        redisClient, f, u, l, e)
           IN  /\ ~last'.raised
               /\ last'.result = cb.result
               /\ last'.result = blind.result
               /\ last'.by[1] # "cf"
               /\ cache' = cb.cache
               /\ Untouched(cache, cache', {"cf"}) ]_vars

C15_Witness ==
    /\ last.op = "get_collaborative_filtering_recommendations"
    /\ ~cfLoaded
    /\ last.user \in CfUserMap
    /\ GetUserMovieIds(interactions, last.user, "ok") # {}
    /\ ~last.raised
    /\ last.by[1] # "cf"

(* C16: MovieService.get_movies(skip, limit): with a non-empty entry for  *)
(* (skip, limit) in the cache it returns that list after exactly one      *)
(* cache lookup and no repository call; on a miss it calls the repository *)
(* exactly once, with the same skip and limit, returns the converted      *)
(* movies and writes them to the cache exactly once.                      *)
C16_GetMoviesHitAndMiss ==
    [][ last'.op = "get_movies"
        => LET key == KeyOf(RequestOf("get_movies", last'.user, last'.limit, FALSE))
               calls == last'.trace
               cached == key \in DOMAIN cache /\ cache[key].val # <<>>
           IN  /\ cached
                  => /\ last'.hit
                     /\ last'.result = cache[key].val
                     /\ calls.lookups = 1
                     /\ calls.repo = <<>>
                     /\ calls.writes = 0
               /\ ~cached
                  => /\ ~last'.hit
                     /\ calls.lookups = 1
                     /\ Len(calls.repo) = 1
                     /\ IntStr(calls.repo[1].skip) = last'.user
                     /\ calls.repo[1].limit = last'.limit
                     /\ last'.result
                           = ConvertedMovies(GetMoviesPage(calls.repo[1].skip,
                                                           last'.limit, "ok"))
                     /\ calls.writes = 1
                     /\ key \in DOMAIN cache' /\ cache'[key].val = last'.result ]_vars

(* C17: in the hybrid blender the position score of the first element of  *)
(* each input list of length L >= 1 is 1.0 (L in units of 1/L), that of   *)
(* the last element is 0.0, and no position score is negative.            *)
C17_PositionScoreEnds ==
    last.op = "hybrid.blend"
    => \A pos \in {last.trace.cfPos, last.trace.cbPos} :
          Len(pos) >= 1
          => /\ pos[1] = Len(pos)
             /\ pos[Len(pos)] = 0
             /\ \A i \in 1..Len(pos) : pos[i] >= 0

(* C18: in the hybrid blender the combined score of every item is         *)
(* cf_weight times its position score in the collaborative list (0 if     *)
(* absent) plus cb_weight times its position score in the content-based   *)
(* list (0 if absent); an item of both lists carries both source labels;  *)
(* every item appears once; the output is the top `limit` items by        *)
(* combined score, in descending order.                                   *)
C18_BlendIsWeightedSum ==
    last.op = "hybrid.blend"
    => LET t == last.trace
           ncf == IF t.cf = <<>> THEN 1 ELSE Len(t.cf)
           ncb == IF t.cb = <<>> THEN 1 ELSE Len(t.cb)
           PosIn(list, pos, m) ==
               IF m \in Range(list)
               THEN pos[CHOOSE i \in 1..Len(list) : list[i] = m]
               ELSE 0
           Expected(m) == CfWeight * ncb * PosIn(t.cf, t.cfPos, m)
                          + CbWeight * ncf * PosIn(t.cb, t.cbPos, m)
           ScoreOf(m) == t.scores[CHOOSE k \in 1..Len(t.scores) : t.scores[k].id = m].score
       IN  /\ Range(Ids(t.scores)) = Range(t.cf) \cup Range(t.cb)
           /\ \A j, k \in 1..Len(t.scores) :
                 j # k => t.scores[j].id # t.scores[k].id
           /\ \A k \in 1..Len(t.scores) :
                 /\ t.scores[k].score = Expected(t.scores[k].id)
                 /\ ("collaborative" \in Range(t.scores[k].sources))
                       = (t.scores[k].id \in Range(t.cf))
                 /\ ("content" \in Range(t.scores[k].sources))
                       = (t.scores[k].id \in Range(t.cb))
           /\ Len(last.result) = Min(last.limit, Len(t.scores))
           /\ \A i, j \in 1..Len(last.result) :
                 /\ i # j => last.result[i] # last.result[j]
                 /\ i < j => ScoreOf(last.result[i]) >= ScoreOf(last.result[j])
           /\ \A i \in 1..Len(last.result) :
                 \A m \in Range(Ids(t.scores)) \ Range(last.result) :
                    ScoreOf(m) <= ScoreOf(last.result[i])

C18_Witness ==
    /\ last.op = "hybrid.blend"
    /\ Len(last.trace.cf) >= 2
    /\ Len(last.trace.cb) >= 2
    /\ \E m \in Range(last.trace.cf) \cap Range(last.trace.cb) :
          /\ m \in Range(last.result)
          /\ m # last.trace.cf[1]
    /\ Len(last.trace.scores) > last.limit
    /\ last.limit > 1

C20_ScoreSumsOverProfile ==
    (/\ last.op = "get_recommendations_for_user"
     /\ ~last.hit
     /\ ~last.raised
     /\ last.dbOk)
    => \A k \in 1..Len(last.trace) :
          last.trace[k].score
             = WeightedSimilaritySum(
                   GetUserInteractions(interactions, last.user, PROFILE_LIMIT, "ok"),
                   last.trace[k].id, "ok")

(* C21: when the user has interactions but no candidate accumulates a     *)
(* score (no profile movie has an embedding, or every candidate is seen), *)
(* the content-based recommender returns the popularity fallback, not an  *)
(* empty list: the movies _get_default_recommendations or                 *)
(* get_popular_movies returns for the limit.                              *)
C21_NoScoreFallsBackToPopularity ==
    (/\ last.op = "get_recommendations_for_user"
     /\ ~last.hit
     /\ ~last.raised
     /\ last.dbOk
     /\ GetUserInteractions(interactions, last.user, PROFILE_LIMIT, "ok") # <<>>
     /\ last.trace = <<>>)
    => /\ last.result # <<>>
       /\ last.result \in
             { DefaultRecommendations(last.limit, "ok"),
               GetPopularMovies(interactions, <<>>, TRUE, NoFault, last.limit).result }

(* C22: get_similar_movies(m, limit) returns candidates in descending     *)
(* order of their similarity to m, candidates of equal similarity in the  *)
(* order of the candidate pool; the list never contains m nor a movie     *)
(* without an embedding; the call does not raise, and with an empty       *)
(* candidate pool it returns the empty list.                              *)
C22_SimilarOrderedAndClean ==
    (last.op = "get_similar_movies")
    => LET m == last.user
           src == GetEmbedding(m, "ok")
           Sim(x) == Similarity(src, GetEmbedding(x, "ok"))
           PoolIndex(x) == CHOOSE i \in 1..Len(Movies) : Movies[i].id = x
       IN  /\ ~last.raised
           /\ m \notin Range(last.result)
           /\ \A i \in 1..Len(last.result) : GetEmbedding(last.result[i], "ok") # <<>>
           /\ \A i, j \in 1..Len(last.result) :
                 i < j
                 => \/ Sim(last.result[i]) > Sim(last.result[j])
                    \/ /\ Sim(last.result[i]) = Sim(last.result[j])
                       /\ PoolIndex(last.result[i]) < PoolIndex(last.result[j])
           /\ (~last.hit /\ GetMovies(CANDIDATE_POOL, FaultOf(last).db) = <<>>)
              => last.result = <<>>

C22_Witness ==
    /\ last.op = "get_similar_movies"
    /\ ~last.hit
    /\ ~last.caught
    /\ Len(last.result) = 2
    /\ Similarity(GetEmbedding(last.user, "ok"), GetEmbedding(last.result[1], "ok"))
          = Similarity(GetEmbedding(last.user, "ok"), GetEmbedding(last.result[2], "ok"))
    /\ \E k \in DOMAIN cache : k[2] = "similar" /\ cache[k].val = last.result

(* C23: in get_collaborative_filtering_recommendations a prediction error *)
(* for one candidate removes only that candidate: with the model loaded,  *)
(* the user in the user-mapping table, no cached entry and the details of *)
(* the top movies resolving, the call answers from its own predictions,   *)
(* and the result is the top `limit`, by predicted rating descending, of  *)
(* the unseen candidates of the item-mapping table whose prediction       *)
(* succeeds.                                                              *)
C23_PredictionErrorIsolated ==
    LET u == last.user
        l == last.limit
        seen == IF last.excl THEN GetUserMovieIds(interactions, u, "ok") ELSE {}
        Est(m) == CfPredict(u, m).est
        Eligible == {m \in MovieIds :
                        m \notin seen /\ m \in CfMovieMap /\ ~CfPredict(u, m).raised}
        TopSet == {m \in Eligible :
                      Cardinality({x \in Eligible : Est(x) > Est(m)}) < l}
    IN  (/\ last.op = "get_collaborative_filtering_recommendations"
         /\ cfLoaded
         /\ ~last.hit
         /\ last.dbOk
         /\ u \in CfUserMap
         /\ \A m \in TopSet : Converts(m))
        => /\ ~last.caught
           /\ last.by[1] = "cf"
           /\ Len(last.result) = Min(l, Cardinality(Eligible))
           /\ Range(last.result) \subseteq Eligible
           /\ \A i, j \in 1..Len(last.result) :
                 i < j => Est(last.result[i]) >= Est(last.result[j])
           /\ \A i \in 1..Len(last.result) : \A m \in Eligible \ Range(last.result) :
                 Est(m) <= Est(last.result[i])

C23_Witness ==
    /\ last.op = "get_collaborative_filtering_recommendations"
    /\ cfLoaded
    /\ ~last.hit
    /\ last.by[1] = "cf"
    /\ last.excl
    /\ GetUserMovieIds(interactions, last.user, "ok") # {}
    /\ \E m \in CfMovieMap \ GetUserMovieIds(interactions, last.user, "ok") :
          CfPredict(last.user, m).raised
    /\ Len(last.result) = 2

(* C24: of two identical get_recommendations_for_user requests that       *)
(* overlap and both miss the cache, with no store write in between, the   *)
(* second to return returns the list the first returned, and the cache    *)
(* then holds exactly that list under the key of the request.             *)
C24_DuplicateMissesAgree ==
    [][ (/\ last' # last
         /\ last.op = "get_recommendations_for_user"
         /\ last'.op = "get_recommendations_for_user"
         /\ last.after = "overlap"
         /\ last'.user = last.user /\ last'.limit = last.limit
         /\ last'.excl = last.excl
         /\ ~last.hit /\ ~last'.hit)
        => LET key == UserKey(last'.user, last'.limit, last'.excl)
           IN  /\ ~last'.raised
               /\ last'.result = last.result
               /\ key \in DOMAIN cache'
               /\ cache'[key].val = last'.result
               /\ cache'[key].fmt = "resp" ]_vars

(* C25: create_interaction for user U deletes only cache entries scoped   *)
(* to U: every entry whose subject is another user and every entry not    *)
(* scoped to a user is in the cache, unchanged, after the write, whatever *)
(* strings the user ids are.                                              *)
C25_WriteLeavesOthersAlone ==
    [][ (/\ last'.op = "create_interaction"
         /\ interactions' # interactions)
        => \A k \in DOMAIN cache :
              ~IsRecommendationKeyOf(k, last'.user)
              => k \in DOMAIN cache' /\ cache'[k] = cache[k] ]_vars

(* C26: the cache never holds an empty list under a recommendation key:   *)
(* every recommender writes its result only when it is non-empty and      *)
(* takes a cached value for a hit only when it is non-empty, so a request *)
(* whose computed result is empty is never answered from the cache.       *)
C26_NoEmptyListCached ==
    /\ \A k \in DOMAIN cache :
          SubSeq(k, 1, 2) # <<"movies", "list">> => cache[k].val # <<>>
    /\ (last.op \notin {"none", "create_interaction", "get_movies"} /\ last.hit)
       => last.result # <<>>

(* C27: when persisting the interaction fails (the repository insert      *)
(* errors and returns no id), create_interaction raises                   *)
(* InteractionServiceError, adds nothing to the store and deletes no      *)
(* cache key; the store only grows, by one interaction per successful     *)
(* create, and no stored interaction is ever changed or removed.          *)
C27_FailedInsertChangesNothing ==
    [][ /\ (last'.op = "create_interaction" /\ last' # last /\ ~last'.dbOk)
           => /\ last'.raised
              /\ last'.id = 0
              /\ interactions' = interactions
              /\ cache' = cache
              /\ last'.deleted = {}
        /\ Len(interactions') >= Len(interactions)
        /\ SubSeq(interactions', 1, Len(interactions)) = interactions
        /\ interactions' # interactions
           => /\ Len(interactions') = Len(interactions) + 1
              /\ last'.op = "create_interaction"
              /\ ~last'.raised
              /\ last'.id = Len(interactions') ]_vars

C27_Witness ==
    /\ last.op = "create_interaction"
    /\ ~last.dbOk
    /\ last.cacheOk
    /\ last.raised
    /\ interactions # <<>>
    /\ \E k \in DOMAIN cache : GlobMatch(InvalidationPattern(last.user), k)

(* C28: with the hybrid configuration loaded (weights 0.7 and 0.3) and    *)
(* the collaborative model or mappings absent, the collaborative call of  *)
(* get_hybrid_recommendations(U, limit, e) answers what                   *)
(* get_content_based_recommendations(U, min(3 * limit, 30), e) answers,   *)
(* the content-based call that follows answers the same list, and the     *)
(* hybrid result is the first `limit` items of that list, in its order.   *)
C28_ColdHybridIsContentBased ==
    [][ (/\ last'.op = "get_hybrid_recommendations"
         /\ last' # last
         /\ hybridLoaded /\ ~cfLoaded
         /\ ~last'.hit)
        => LET f == [cache |-> last'.cacheFault,
                     db |-> IF last'.dbOk THEN "ok" ELSE "down"]
               u == last'.user
               e == last'.excl
               larger == Min(last'.limit * HYBRID_FACTOR, HYBRID_CAP)
               content == GetContentBased(interactions, cache, redisClient, f,
                                          u, larger, e)
               cf == GetCollaborativeFiltering(interactions, cache, redisClient,
                                               f, cfLoaded, u, larger, e)
               cb == GetContentBased(interactions, cf.cache, redisClient, f,
                                     u, larger, e)
           IN  /\ cf.result = content.result
               /\ cb.result = content.result
               /\ last'.result = Take(content.result, last'.limit)
               /\ ~last'.raised ]_vars

C28_Witness ==
    /\ last.op = "get_hybrid_recommendations"
    /\ hybridLoaded /\ ~cfLoaded
    /\ ~last.hit /\ ~last.raised
    /\ last.user \in CfUserMap
    /\ \E i \in 1..Len(interactions) :
          /\ interactions[i].user = last.user
          /\ interactions[i].movie \in CfMovieMap
    /\ \E m \in CfMovieMap :
          \A i \in 1..Len(interactions) : interactions[i].movie # m

(* C29: connect_to_mongodb makes at most 5 attempts; it returns right     *)
(* after the first attempt whose ping answers, and raises the error of    *)
(* the 5th attempt when all five fail; it sleeps once between two         *)
(* attempts and not after the last; the first delay is 1 second, each     *)
(* next one is twice the one before, and no delay is over 30 seconds.     *)
C29_MongoRetrySchedule ==
    /\ task # Idle /\ task.pc \in {"ping", "sleep"}
       => /\ task.attempt < MONGODB_MAX_RETRIES
          /\ Len(task.slept) = task.attempt
          /\ task.pc = "sleep" => task.attempt < MONGODB_MAX_RETRIES - 1
          /\ task.retry_delay <= MONGODB_DELAY_CAP
          /\ task.attempt = 0 => task.retry_delay = MONGODB_RETRY_DELAY
          /\ task.attempt > 0
             => task.retry_delay
                  = Min(2 * task.slept[task.attempt], MONGODB_DELAY_CAP)
    /\ last.op = "connect_to_mongodb"
       => /\ last.trace.attempts \in 1..MONGODB_MAX_RETRIES
          /\ last.raised <=> last.trace.error = MONGODB_MAX_RETRIES
          /\ last.raised => last.trace.attempts = MONGODB_MAX_RETRIES
          /\ ~last.raised => last.trace.error = 0
          /\ Len(last.trace.slept) = last.trace.attempts - 1
          /\ \A i \in 1..Len(last.trace.slept) :
                /\ last.trace.slept[i] <= MONGODB_DELAY_CAP
                /\ i = 1 => last.trace.slept[i] = MONGODB_RETRY_DELAY
                /\ i > 1 => last.trace.slept[i] = 2 * last.trace.slept[i - 1]

C29_Witness ==
    /\ last.op = "connect_to_mongodb"
    /\ last.raised
    /\ last.trace.slept = <<1, 2, 4, 8>>
    /\ task # Idle /\ task.pc = "sleep" /\ task.attempt = 2

(* C30: init_redis tries to connect in one call per process only: a call  *)
(* made after the first returns without a connection attempt and leaves   *)
(* the Redis client as it was, also when the first call left no client;   *)
(* the first call makes at most 3 attempts; no call raises.               *)
C30_RedisInitOnce ==
    [][ /\ (/\ last'.op = "init_redis"
            /\ task = Idle /\ task' = Idle
            /\ (last.op # "init_redis" \/ last'.trace # last.trace
                \/ redisConnectionAttempted' # redisConnectionAttempted))
           => /\ ~last'.raised
              /\ redisConnectionAttempted'
              /\ last'.trace.attempts <= REDIS_MAX_RETRIES
              /\ last'.trace.first = ~redisConnectionAttempted
              /\ redisConnectionAttempted
                 => /\ last'.trace.attempts = 0
                    /\ last'.trace.pings = 0
                    /\ redisClient' = redisClient
              /\ ~redisConnectionAttempted => last'.trace.attempts >= 1
        /\ redisConnectionAttempted
           => redisConnectionAttempted' /\ redisClient' = redisClient ]_vars

C30_Witness ==
    /\ last.op = "init_redis"
    /\ ~last.trace.first
    /\ last.trace.attempts = 0
    /\ redisConnectionAttempted
    /\ ~redisClient

====
